---- MODULE Spec2Model ----
(***************************************************************************)
(* PoemSys resource-lifecycle coordinator: the port allocator              *)
(* (port_manager.py), the tunnel orchestrator (dynamic_tunnel_manager.py)  *)
(* in front of the NPS broker, and the container lifecycle coordinator     *)
(* (container_manager.py) in front of the container runtime.               *)
(*                                                                         *)
(* Ten specifications share the state:                                     *)
(*   SpecAlloc   threads calling allocate_port / release_port on one       *)
(*               PortManager, each call split at its lock acquisition and  *)
(*               at its read and its write of the allocation table;        *)
(*   SpecTunnel  one caller of the orchestrator's create_tunnel,           *)
(*               delete_tunnel, update_tunnel and get_tunnel_info, each    *)
(*               call one step;                                            *)
(*   Spec        one caller of the coordinator's create_container,         *)
(*               start_container, stop_container and remove_container,     *)
(*               each handler split at its calls to the runtime and to     *)
(*               the orchestrator and run to completion before the next    *)
(*               call starts.                                              *)
(*   SpecSnapshot  one caller of create_container, stop_and_commit and     *)
(*               start_from_snapshot, with a broker whose list and delete  *)
(*               calls succeed.                                            *)
(*   SpecBoot    the constructor's reconciliation alone, over the          *)
(*               allocation files and broker lists a previous run may      *)
(*               have left.                                                *)
(*   SpecRace    one thread calling update_tunnel and get_tunnel_info      *)
(*               while the others call allocate_port and release_port,     *)
(*               every call split at its reads and writes of the table.    *)
(*  SpecPersist  one caller of the allocator over a disk whose writes may  *)
(*              fail, restarted from its allocation file between calls.    *)
(*  SpecRequest  one caller of the broker client, one HTTP attempt a step. *)
(*  SpecLifecycle  one thread calling start_container while another calls  *)
(*              remove_container on containers that exist and are stopped. *)
(*  SpecRestart  one caller of create_container and start_container over a *)
(*              port range and a broker with room for two sets of tunnels, *)
(*              with containers whose process may exit by itself.          *)
(***************************************************************************)
EXTENDS Integers, Sequences, FiniteSets, TLC

(***************************************************************************)
(* Bounds of the model.                                                    *)
(***************************************************************************)
RangeSize == 4          \* number of ports in the configured range
NumIds == 3             \* broker tunnel ids 1..NumIds
NumThreads == 2         \* threads calling the allocator in SpecAlloc
MaxHistoryLen == 2      \* no container is created past this history length (one more from a snapshot)
MaxSnapshots == 2       \* stop_and_commit is not started past this clock reading

(***************************************************************************)
(* Configuration (port_manager.py defaults, container_manager.py config).  *)
(***************************************************************************)
PortStart == 10000
PortEnd == PortStart + RangeSize - 1
SshInternalPort == 22
MaxHistoryPerContainer == 1
\* reserved_ports: 22 is one of the defaults; the second entry puts a
\* reserved port inside the range, as a configuration file may.
ReservedPorts == {SshInternalPort, PortStart + 1}
DefaultClientId == 2
PollAttempts == 3

NoPort == 0             \* Python None where a port is expected
NoId == 0               \* Python None where a tunnel id is expected
NoThread == 0           \* the lock is free

\* Every port value the model lets a caller or the broker name: the range,
\* a reserved port outside it, and an unreserved port above it.
Ports == (PortStart .. PortEnd) \cup {SshInternalPort, PortEnd + 1}
Ids == 1 .. NumIds
Threads == 1 .. NumThreads
Names == {"demo"}
BaseImage == "ubuntu-jupyter"
ServiceOrder == <<"ssh", "jupyter", "app">>
Services == {ServiceOrder[i] : i \in 1 .. Len(ServiceOrder)}
\* The two strategies allocate_port knows, and a misconfigured one.
Strategies == {"sequential", "random", "round_robin"}

EmptyMap == [x \in {} |-> 0]
MapRemove(f, k) == [x \in (DOMAIN f) \ {k} |-> f[x]]
MapPut(f, k, v) == [x \in (DOMAIN f) \cup {k} |-> IF x = k THEN v ELSE f[x]]
MinOf(S) == CHOOSE x \in S : \A y \in S : x <= y

VARIABLES
    strategy,            \* PortManager.config["allocation"]["strategy"]
    port_range_end,      \* PortManager.config["port_range"]["end"]
    allocated_ports,     \* PortManager.allocated_ports: port -> record
    port_file,           \* the persisted allocation file
    port_lock,           \* PortManager.port_lock: the holding thread or NoThread
    nps_tunnels,         \* the broker's tunnels: id -> record
    tunnel_mappings,     \* DynamicTunnelManager.tunnel_mappings: id -> record
    containers,          \* the runtime's containers: name -> status
    container_images,    \* DockerContainerManager.container_images
    image_history,       \* DockerContainerManager.image_history
    container_tunnels,   \* DockerContainerManager.container_tunnels
    phase,               \* "boot" until _load_tunnel_mappings has run
    disk_faulty,         \* environment: writes of the allocation file may fail
    broker_flaky,        \* environment: the broker's list and delete calls may fail
    broker_ids,          \* environment: the broker numbers its tunnels within 1 .. broker_ids
    images,              \* the runtime's local images: the set of their tags
    clock,               \* the wall clock: its reading at the last commit
    last_version,        \* history: name -> the version number of its last snapshot
    pc,                  \* each thread's position
    call,                \* each thread's call frame (arguments, locals, result)
    grant_count          \* history: grants of a port by allocate_port since its last release

vars == <<strategy, port_range_end, disk_faulty, broker_flaky, broker_ids, images, clock, last_version, allocated_ports, port_file, port_lock, nps_tunnels,
          tunnel_mappings, containers, container_images, image_history,
          container_tunnels, phase, pc, call, grant_count>>

envVars == <<strategy, port_range_end, disk_faulty, broker_flaky, broker_ids, phase>>
snapVars == <<images, clock, last_version>>
allocVars == <<allocated_ports, port_file, port_lock, grant_count>>
lockVars == <<port_lock, grant_count>>
brokerVars == <<nps_tunnels, tunnel_mappings>>
coordVars == <<containers, container_images, image_history, container_tunnels>>

(***************************************************************************)
(* Port allocator: port_manager.py                                         *)
(***************************************************************************)
PortRecord(service, client_id) == [service |-> service, client_id |-> client_id]

GetAvailablePorts(table) ==
    ((PortStart .. port_range_end) \ ReservedPorts) \ DOMAIN table

IsPortAvailable(table, port) ==
    /\ PortStart <= port /\ port <= port_range_end
    /\ port \notin ReservedPorts
    /\ port \notin DOMAIN table

MarkPortAllocated(table, port, service, client_id) ==
    MapPut(table, port, PortRecord(service, client_id))

\* prefer_ranges of the default configuration: none.
PreferRanges == {}

\* allocate_port, lines 181-183, with the mistake of never looking at the
\* preferred port.
AllocateChoices_IgnorePreferred(table, strat, preferred) ==
    LET available == GetAvailablePorts(table)
    IN  IF available = {} THEN {}
        ELSE IF strat = "sequential" THEN {MinOf(available)}
        ELSE IF strat = "random" THEN available
        ELSE {}

\* allocate_port, lines 195-212, with the mistake of treating a strategy it
\* does not know as the sequential one.
AllocateChoices_DefaultSequential(table, strat, preferred) ==
    IF preferred # NoPort /\ IsPortAvailable(table, preferred)
    THEN {preferred}
    ELSE LET available == GetAvailablePorts(table)
         IN  IF available = {} THEN {}
             ELSE IF strat = "random" THEN available
             ELSE {MinOf(available)}

\* The ports allocate_port may choose; empty when it returns None.
AllocateChoices(table, strat, preferred) ==
    IF preferred # NoPort /\ IsPortAvailable(table, preferred)
    THEN {preferred}
    ELSE LET available == GetAvailablePorts(table)
             preferred_candidates ==
                 {p \in available : \E r \in PreferRanges : r.start <= p /\ p <= r.end}
         IN  IF available = {} THEN {}
             ELSE IF strat = "sequential" THEN {MinOf(available)}
             ELSE IF strat = "random"
                  THEN IF preferred_candidates # {} THEN preferred_candidates
                       ELSE available
             ELSE {}

\* save_allocated_ports, lines 126-141, with the mistake of never writing.
SaveAllocatedPorts_Skip(table, file, write_ok) == file

\* save_allocated_ports: the file is rewritten whole, unless the write fails.
WriteOutcomes == IF disk_faulty THEN BOOLEAN ELSE {TRUE}

SaveAllocatedPorts(table, file, write_ok) == IF write_ok THEN table ELSE file

\* release_port, lines 237-239, with the mistake of leaving the entry in.
ReleasePortTable_Keep(table, port) == table

\* release_ports_by_service and release_ports_by_client: the ports whose
\* record carries the service name, or the client id, asked for.
BulkMatches(table, op, service, client_id) ==
    {p \in DOMAIN table :
        IF op = "release_ports_by_service" THEN table[p].service = service
        ELSE table[p].client_id = client_id}

\* release_port's effect on the table.
ReleasePortTable(table, port) ==
    IF port \in DOMAIN table THEN MapRemove(table, port) ELSE table

(***************************************************************************)
(* The NPS broker, as the orchestrator sees it through nps_manager.py.     *)
(* A tunnel is [Port, Target, Remark, Client]; the broker refuses a port   *)
(* that one of its tunnels already listens on.                             *)
(***************************************************************************)
NoText == "<none>"      \* Python None where a string is expected

NpsTunnel(port, target, remark, client_id) ==
    [Port |-> port, Target |-> target, Remark |-> remark, Client |-> client_id]

BrokerPortFree(broker, port) == \A i \in DOMAIN broker : broker[i].Port # port

Contains(s, m) ==
    \E i \in 1 .. (Len(s) - Len(m) + 1) : SubSeq(s, i, i + Len(m) - 1) = m

UpperCase == "ABCDEFGHIJKLMNOPQRSTUVWXYZ"
LowerCase == "abcdefghijklmnopqrstuvwxyz"

LowerChar(c) ==
    IF \E i \in 1 .. Len(UpperCase) : SubSeq(UpperCase, i, i) = c
    THEN LET i == CHOOSE i \in 1 .. Len(UpperCase) : SubSeq(UpperCase, i, i) = c
         IN  SubSeq(LowerCase, i, i)
    ELSE c

\* str.lower()
RECURSIVE Lower(_)
Lower(s) ==
    IF Len(s) = 0 THEN s
    ELSE LowerChar(SubSeq(s, 1, 1)) \o Lower(SubSeq(s, 2, Len(s)))

\* The service kind inferred from a tunnel's remark and target.
InferService(remark, target) ==
    IF Contains(Lower(remark), "ssh") \/ Contains(target, ":22") THEN "ssh"
    ELSE IF Contains(Lower(remark), "http") \/ Contains(target, ":80")
            \/ Contains(target, ":8080") THEN "http"
    ELSE IF Contains(Lower(remark), "jupyter") \/ Contains(target, ":8888") THEN "jupyter"
    ELSE IF Contains(Lower(remark), "web") THEN "web"
    ELSE "unknown"

(***************************************************************************)
(* Tunnel orchestrator: dynamic_tunnel_manager.py.  Each operator is the   *)
(* handler as a function of the stores and of the outcomes of its broker   *)
(* calls; it yields the stores after the call and the value returned.      *)
(***************************************************************************)
MappingRecord(port, service, client_id, target, remark) ==
    [port |-> port, service |-> service, client_id |-> client_id,
     target |-> target, remark |-> remark]

TunnelInfo(tunnel_id, port, service, client_id, target, remark) ==
    [tunnel_id |-> tunnel_id, port |-> port, service |-> service,
     client_id |-> client_id, target |-> target, remark |-> remark]

\* A call that returns None instead of a tunnel.
NoTunnel == TunnelInfo(NoId, NoPort, "", 0, "", "")

Stores(alloc, file, broker, cache) ==
    [alloc |-> alloc, file |-> file, broker |-> broker, cache |-> cache]

\* _load_tunnel_mappings, lines 49-80, with the mistake of marking the port
\* of every listed tunnel, allocated already or not.
RECURSIVE LoadRows_Overwrite(_, _, _, _)
LoadRows_Overwrite(alloc, cache, broker, ids) ==
    IF ids = {} THEN [alloc |-> alloc, cache |-> cache]
    ELSE LET i == MinOf(ids)
             row == broker[i]
             service == InferService(row.Remark, row.Target)
         IN  LoadRows_Overwrite(MarkPortAllocated(alloc, row.Port, service, DefaultClientId),
                                MapPut(cache, i, MappingRecord(row.Port, service, DefaultClientId,
                                                               row.Target, row.Remark)),
                                broker, ids \ {i})

\* _load_tunnel_mappings, lines 49-80: every listed tunnel is cached and its
\* port marked when the allocator does not hold it yet (marked, not saved).
RECURSIVE LoadRows(_, _, _, _)
LoadRows(alloc, cache, broker, ids) ==
    IF ids = {} THEN [alloc |-> alloc, cache |-> cache]
    ELSE LET i == MinOf(ids)
             row == broker[i]
             service == InferService(row.Remark, row.Target)
             cache1 == MapPut(cache, i, MappingRecord(row.Port, service, DefaultClientId,
                                                      row.Target, row.Remark))
             alloc1 == IF row.Port \in DOMAIN alloc THEN alloc
                       ELSE MarkPortAllocated(alloc, row.Port, service, DefaultClientId)
         IN  LoadRows(alloc1, cache1, broker, ids \ {i})

LoadTunnelMappingsOp(st, list_ok) ==
    IF ~list_ok THEN st
    ELSE LET rows == {i \in DOMAIN st.broker : st.broker[i].Client = DefaultClientId}
             r == LoadRows(st.alloc, st.cache, st.broker, rows)
         IN  Stores(r.alloc, st.file, st.broker, r.cache)

\* create_tunnel, lines 102-139, with the mistake of keeping the port when
\* the broker refuses the tunnel.
CreateTunnelRefused_KeepPort(st, port, write_ok) ==
    [st |-> st, info |-> NoTunnel, nps_calls |-> 1]

\* create_tunnel, lines 133-139: the broker call failed; the port is released.
CreateTunnelRefused(st, port, write_ok) ==
    LET alloc1 == ReleasePortTable(st.alloc, port)
    IN  [st |-> Stores(alloc1, SaveAllocatedPorts(alloc1, st.file, write_ok),
                       st.broker, st.cache),
         info |-> NoTunnel, nps_calls |-> 1]

\* create_tunnel, lines 161-173, with the mistake of releasing the port of
\* a tunnel whose id no poll resolved.
CreateTunnelUnresolved_Release(st, info) ==
    [st |-> Stores(ReleasePortTable(st.alloc, info.port), st.file, st.broker, st.cache),
     info |-> info, nps_calls |-> 1 + PollAttempts]

\* create_tunnel, lines 144-173: the broker accepted the tunnel and none of
\* the polls showed it; the record is returned without an id.
CreateTunnelUnresolved(st, info) ==
    [st |-> st, info |-> info, nps_calls |-> 1 + PollAttempts]

\* create_tunnel(target, service_name, client_id, preferred_port, remark).
\*   port      the port allocate_port returned, NoPort for None
\*   add_ok    the broker's answer to add_tunnel
\*   new_id    the id the broker gives the tunnel
\*   poll      the list poll, of PollAttempts, that showed the tunnel on
\*             the port; 0 when none did
CreateTunnelOp(st, target, service, client_arg, remark_arg, port, add_ok, new_id, poll, write_ok) ==
    LET client_id == IF client_arg = 0 THEN DefaultClientId ELSE client_arg
        remark == IF remark_arg = NoText THEN service \o "_" \o target ELSE remark_arg
    IN  IF port = NoPort
        THEN [st |-> st, info |-> NoTunnel, nps_calls |-> 0]
        ELSE LET alloc1 == MarkPortAllocated(st.alloc, port, service, client_id)
                 st1 == Stores(alloc1, SaveAllocatedPorts(alloc1, st.file, write_ok),
                               st.broker, st.cache)
             IN  IF ~add_ok
                 THEN CreateTunnelRefused(st1, port, write_ok)
                 ELSE LET broker1 == MapPut(st.broker, new_id,
                                            NpsTunnel(port, target, remark, client_id))
                      IN  IF poll = 0
                          THEN CreateTunnelUnresolved(Stores(alloc1, st1.file, broker1, st.cache),
                                                      TunnelInfo(NoId, port, service, client_id,
                                                                 target, remark))
                          ELSE [st |-> Stores(alloc1, st1.file, broker1,
                                              MapPut(st.cache, new_id,
                                                     MappingRecord(port, service, client_id,
                                                                   target, remark))),
                                info |-> TunnelInfo(new_id, port, service, client_id,
                                                    target, remark),
                                nps_calls |-> 1 + poll]

\* delete_tunnel, lines 238-243, with the mistake of keeping the cache record.
DeleteCached_KeepRecord(st, tunnel_id, write_ok) ==
    LET alloc1 == ReleasePortTable(st.alloc, st.cache[tunnel_id].port)
    IN  Stores(alloc1, SaveAllocatedPorts(alloc1, st.file, write_ok),
               MapRemove(st.broker, tunnel_id), st.cache)

\* delete_tunnel, lines 238-243: the port is released and the record dropped.
DeleteCached(st, tunnel_id, write_ok) ==
    LET port == st.cache[tunnel_id].port
        alloc1 == ReleasePortTable(st.alloc, port)
        file1 == IF port \in DOMAIN st.alloc
                 THEN SaveAllocatedPorts(alloc1, st.file, write_ok) ELSE st.file
    IN  Stores(alloc1, file1, MapRemove(st.broker, tunnel_id),
               MapRemove(st.cache, tunnel_id))

\* delete_tunnel, lines 232-243, with the mistake of releasing the port and
\* dropping the record whatever the broker answered.
DeleteTunnelOp_IgnoreBroker(st, tunnel_id, del_ok, write_ok) ==
    IF tunnel_id \notin DOMAIN st.cache THEN [st |-> st, ok |-> FALSE]
    ELSE [st |-> DeleteCached(st, tunnel_id, write_ok), ok |-> del_ok]

\* delete_tunnel(tunnel_id); del_ok is the broker's answer to delete_tunnel.
DeleteTunnelOp(st, tunnel_id, del_ok, write_ok) ==
    IF tunnel_id \notin DOMAIN st.cache
    THEN \* lines 209-223: a direct broker delete; no port is looked up
         IF del_ok
         THEN [st |-> Stores(st.alloc, st.file, MapRemove(st.broker, tunnel_id), st.cache),
               ok |-> TRUE]
         ELSE [st |-> st, ok |-> FALSE]
    ELSE IF ~del_ok THEN [st |-> st, ok |-> FALSE]
    ELSE [st |-> DeleteCached(st, tunnel_id, write_ok), ok |-> TRUE]

\* What "if not self.port_manager._mark_port_allocated(...)" tests: the
\* helper has no return statement, so its value is None.
MarkPortAllocatedResult == FALSE

\* update_tunnel, lines 288-327, with the mistake of releasing the old port
\* before the new one is marked and the broker asked.
UpdateTunnelOp_ReleaseFirst(st, tunnel_id, target, port, remark, upd_ok, write_ok) ==
    IF tunnel_id \notin DOMAIN st.cache THEN [st |-> st, ok |-> FALSE]
    ELSE LET old == st.cache[tunnel_id]
         IN  IF port # NoPort /\ port # old.port /\ IsPortAvailable(st.alloc, port)
             THEN [st |-> Stores(MarkPortAllocated(ReleasePortTable(st.alloc, old.port), port,
                                                   old.service, old.client_id),
                                 st.file, st.broker, st.cache),
                   ok |-> FALSE]
             ELSE [st |-> st, ok |-> FALSE]

\* update_tunnel(tunnel_id, target, port, remark); NoText and NoPort stand
\* for the arguments left out; upd_ok is the broker's answer.
UpdateTunnelOp(st, tunnel_id, target, port, remark, upd_ok, write_ok) ==
    IF tunnel_id \notin DOMAIN st.cache THEN [st |-> st, ok |-> FALSE]
    ELSE
    LET old == st.cache[tunnel_id]
        final_target == IF target # NoText THEN target ELSE old.target
        final_port == IF port # NoPort THEN port ELSE old.port
        final_remark == IF remark # NoText THEN remark ELSE old.remark
        change_port == port # NoPort /\ port # old.port
    IN  IF final_target = old.target /\ final_port = old.port /\ final_remark = old.remark
        THEN [st |-> st, ok |-> TRUE]
        ELSE IF change_port /\ ~IsPortAvailable(st.alloc, port)
        THEN [st |-> st, ok |-> FALSE]
        ELSE
        LET alloc1 == IF change_port
                      THEN MarkPortAllocated(st.alloc, port, old.service, old.client_id)
                      ELSE st.alloc
            st1 == Stores(alloc1, st.file, st.broker, st.cache)
        IN  IF change_port /\ ~MarkPortAllocatedResult
            THEN [st |-> st1, ok |-> FALSE]
            ELSE IF ~upd_ok
            THEN IF change_port
                 THEN LET alloc2 == ReleasePortTable(alloc1, port)
                      IN  [st |-> Stores(alloc2, SaveAllocatedPorts(alloc2, st.file, write_ok),
                                         st.broker, st.cache),
                           ok |-> FALSE]
                 ELSE [st |-> st1, ok |-> FALSE]
            ELSE
            LET alloc2 == IF change_port THEN ReleasePortTable(alloc1, old.port) ELSE alloc1
                file2 == IF change_port /\ old.port \in DOMAIN alloc1
                         THEN SaveAllocatedPorts(alloc2, st.file, write_ok) ELSE st.file
                row == st.broker[tunnel_id]
                broker2 == IF tunnel_id \in DOMAIN st.broker
                           THEN [st.broker EXCEPT ![tunnel_id] =
                                    NpsTunnel(final_port, final_target, final_remark, row.Client)]
                           ELSE st.broker
                cache2 == [st.cache EXCEPT ![tunnel_id] =
                              MappingRecord(final_port, old.service, old.client_id,
                                            final_target, final_remark)]
            IN  [st |-> Stores(alloc2, file2, broker2, cache2), ok |-> TRUE]

\* get_tunnel_info(tunnel_id); get_ok: the broker answered with the tunnel.
GetTunnelInfoOp(st, tunnel_id, get_ok) ==
    IF tunnel_id \in DOMAIN st.cache
    THEN LET r == st.cache[tunnel_id]
         IN  [st |-> st,
              info |-> TunnelInfo(tunnel_id, r.port, r.service, r.client_id, r.target, r.remark)]
    ELSE IF ~(get_ok /\ tunnel_id \in DOMAIN st.broker)
    THEN [st |-> st, info |-> NoTunnel]
    ELSE LET row == st.broker[tunnel_id]
             service == InferService(row.Remark, row.Target)
             cache1 == MapPut(st.cache, tunnel_id,
                              MappingRecord(row.Port, service, row.Client, row.Target,
                                            row.Remark))
             alloc1 == IF row.Port \in DOMAIN st.alloc THEN st.alloc
                       ELSE MarkPortAllocated(st.alloc, row.Port, service, row.Client)
         IN  [st |-> Stores(alloc1, st.file, st.broker, cache1),
              info |-> TunnelInfo(tunnel_id, row.Port, service, row.Client, row.Target,
                                  row.Remark)]

(***************************************************************************)
(* Call frames: the arguments, locals and result of the call a thread is   *)
(* in, and what the stores held when the call began.                       *)
(***************************************************************************)
IdleCall ==
    [op |-> "none", caller |-> "top", name |-> "", image |-> "",
     remove_snapshots |-> FALSE, exists |-> FALSE, container |-> FALSE,
     pre_bound |-> EmptyMap, pre_status |-> "absent",
     service |-> "", client_id |-> 0, preferred |-> NoPort, port |-> NoPort,
     tunnel_id |-> NoId, info |-> NoTunnel,
     idx |-> 0, created |-> EmptyMap, attempted |-> {}, failed |-> {},
     handle |-> FALSE, runtime |-> "none", cleanup_ok |-> TRUE,
     todo |-> <<>>, bound |-> EmptyMap, del_attempted |-> {}, del_failed |-> {},
     rm_caller |-> "top", version_tag |-> "", tag |-> "", version |-> 0,
     pruned |-> <<>>, requested |-> <<>>, img_failed |-> {},
     remove_success |-> FALSE, image_record_cleaned |-> FALSE, commit |-> "none",
     prev_version |-> 0, history |-> <<>>,
     undone |-> FALSE, log |-> <<>>,
     response |-> [received |-> FALSE, status |-> 0, msg |-> ""],
     changed |-> FALSE, saved |-> FALSE, released |-> {},
     result |-> FALSE, poll |-> 0, ok |-> FALSE, ports |-> EmptyMap, nps_calls |-> 0,
     pre |-> Stores(EmptyMap, EmptyMap, EmptyMap, EmptyMap)]

CurrentStores == Stores(allocated_ports, port_file, nps_tunnels, tunnel_mappings)

\* The tunnel ids some store or some call frame still refers to.
BoundIds(binding) == {binding[s].tunnel_id : s \in DOMAIN binding} \ {NoId}
SeqIds(q) == {q[i].tunnel_id : i \in 1 .. Len(q)} \ {NoId}
UsedIds ==
    DOMAIN nps_tunnels \cup DOMAIN tunnel_mappings
    \cup UNION {BoundIds(container_tunnels[n]) : n \in DOMAIN container_tunnels}
    \cup UNION {BoundIds(call[t].created) \cup BoundIds(call[t].bound)
                \cup SeqIds(call[t].todo) \cup {call[t].info.tunnel_id} : t \in Threads}

\* The id the broker gives its next tunnel: one nothing refers to; NoId when
\* the broker has run out of ids, and it then refuses the tunnel.
FreshId ==
    LET free == (1 .. broker_ids) \ UsedIds
    IN  IF free = {} THEN NoId ELSE MinOf(free)

\* The broker's answers to add_tunnel: a refusal is always possible; it
\* accepts only a port none of its tunnels listens on.
AddOutcomes(port) ==
    IF port # NoPort /\ BrokerPortFree(nps_tunnels, port) /\ FreshId # NoId
    THEN BOOLEAN ELSE {FALSE}

\* The broker's answers to the list polls after an accepted add_tunnel: the
\* poll that shows the new tunnel, 0 when none does.
PollOutcomes == IF broker_flaky THEN 0 .. PollAttempts ELSE {1}

\* The broker's answers to del_tunnel.
DeleteOutcomes == IF broker_flaky THEN BOOLEAN ELSE {TRUE}

\* What allocate_port returns, run under its lock in one step.
PortOutcomes(preferred) ==
    LET choices == AllocateChoices(allocated_ports, strategy, preferred)
    IN  IF choices = {} THEN {NoPort} ELSE choices

SetStores(st) ==
    /\ allocated_ports' = st.alloc
    /\ port_file' = st.file
    /\ nps_tunnels' = st.broker
    /\ tunnel_mappings' = st.cache

\* The preferred_port arguments tried: none, a free-able port, a reserved one.
PreferredArgs == {NoPort, PortStart, PortStart + 1}

\* The release_port arguments tried: a port of the range, a port outside it.
ReleaseArgs == {PortStart, PortEnd + 1}

\* The bulk releases tried: by a service name that allocate_port is called
\* with or by another one, and by the default client id.
BulkArgs ==
    {[op |-> "release_ports_by_service", service |-> "ssh", client_id |-> 0],
     [op |-> "release_ports_by_service", service |-> "http", client_id |-> 0],
     [op |-> "release_ports_by_client", service |-> "", client_id |-> DefaultClientId]}

\* with self.port_lock, without the lock.
LockAvailable_Unlocked(t) == TRUE

\* with self.port_lock: an RLock, free or already held by the caller.
LockAvailable(t) == port_lock = NoThread \/ port_lock = t

\* The one thread of SpecTunnel and of Spec.
Caller == 1

(***************************************************************************)
(* allocate_port and release_port, step by step (SpecAlloc).               *)
(***************************************************************************)
BeginAllocatePort(t) ==
    /\ pc[t] = "idle" /\ phase = "ready"
    /\ \E service \in {"ssh"}, preferred \in PreferredArgs :
          call' = [call EXCEPT ![t] =
                      [IdleCall EXCEPT !.op = "allocate_port", !.service = service,
                                       !.client_id = DefaultClientId,
                                       !.preferred = preferred]]
    /\ pc' = [pc EXCEPT ![t] = "ap_lock"]
    /\ UNCHANGED <<envVars, snapVars, allocVars, brokerVars, coordVars>>

AllocAcquire(t) ==
    /\ pc[t] = "ap_lock"
    /\ LockAvailable(t)
    /\ port_lock' = t
    /\ pc' = [pc EXCEPT ![t] = "ap_pick"]
    /\ UNCHANGED <<envVars, snapVars, allocated_ports, port_file, grant_count, brokerVars,
                   coordVars, call>>

\* Lines 178-213: the preferred port or the strategy's choice; None ends the call.
AllocPick(t) ==
    /\ pc[t] = "ap_pick"
    /\ LET choices == AllocateChoices(allocated_ports, strategy, call[t].preferred)
       IN  IF choices = {}
           THEN /\ call' = [call EXCEPT ![t].port = NoPort, ![t].ok = FALSE]
                /\ port_lock' = NoThread
                /\ pc' = [pc EXCEPT ![t] = "done"]
           ELSE /\ \E p \in choices : call' = [call EXCEPT ![t].port = p]
                /\ port_lock' = port_lock
                /\ pc' = [pc EXCEPT ![t] = "ap_mark"]
    /\ UNCHANGED <<envVars, snapVars, allocated_ports, port_file, grant_count, brokerVars,
                   coordVars>>

\* Lines 215-218: mark, save, return the port (the lock is released on return).
AllocMark(t) ==
    /\ pc[t] = "ap_mark"
    /\ allocated_ports' = MarkPortAllocated(allocated_ports, call[t].port,
                                            call[t].service, call[t].client_id)
    /\ \E write_ok \in WriteOutcomes :
          /\ port_file' = SaveAllocatedPorts(allocated_ports', port_file, write_ok)
          /\ call' = [call EXCEPT ![t].ok = TRUE, ![t].changed = TRUE,
                                   ![t].saved = write_ok]
    /\ grant_count' = [grant_count EXCEPT ![call[t].port] = @ + 1]
    /\ port_lock' = NoThread
    /\ pc' = [pc EXCEPT ![t] = "done"]
    /\ UNCHANGED <<envVars, snapVars, brokerVars, coordVars>>

BeginReleasePort(t) ==
    /\ pc[t] = "idle" /\ phase = "ready"
    /\ \E port \in ReleaseArgs :
          call' = [call EXCEPT ![t] =
                      [IdleCall EXCEPT !.op = "release_port", !.port = port]]
    /\ pc' = [pc EXCEPT ![t] = "rp_lock"]
    /\ UNCHANGED <<envVars, snapVars, allocVars, brokerVars, coordVars>>

ReleaseAcquire(t) ==
    /\ pc[t] = "rp_lock"
    /\ LockAvailable(t)
    /\ port_lock' = t
    /\ pc' = [pc EXCEPT ![t] = "rp_body"]
    /\ UNCHANGED <<envVars, snapVars, allocated_ports, port_file, grant_count, brokerVars,
                   coordVars, call>>

\* Lines 236-245: delete the entry and save, or report "nothing to release".
ReleaseBody(t) ==
    /\ pc[t] = "rp_body"
    /\ LET port == call[t].port
           held == port \in DOMAIN allocated_ports
       IN  /\ allocated_ports' = ReleasePortTable(allocated_ports, port)
           /\ IF held
              THEN \E write_ok \in WriteOutcomes :
                      /\ port_file' = SaveAllocatedPorts(allocated_ports', port_file, write_ok)
                      /\ call' = [call EXCEPT ![t].ok = TRUE, ![t].changed = TRUE,
                                               ![t].saved = write_ok]
              ELSE /\ port_file' = port_file
                   /\ call' = [call EXCEPT ![t].ok = FALSE]
           /\ grant_count' = IF held THEN [grant_count EXCEPT ![port] = 0]
                             ELSE grant_count
    /\ port_lock' = NoThread
    /\ pc' = [pc EXCEPT ![t] = "done"]
    /\ UNCHANGED <<envVars, snapVars, brokerVars, coordVars>>

BeginReleaseBulk(t) ==
    /\ pc[t] = "idle" /\ phase = "ready"
    /\ \E a \in BulkArgs :
          call' = [call EXCEPT ![t] =
                      [IdleCall EXCEPT !.op = a.op, !.service = a.service,
                                       !.client_id = a.client_id]]
    /\ pc' = [pc EXCEPT ![t] = "rb_lock"]
    /\ UNCHANGED <<envVars, snapVars, allocVars, brokerVars, coordVars>>

BulkAcquire(t) ==
    /\ pc[t] = "rb_lock"
    /\ LockAvailable(t)
    /\ port_lock' = t
    /\ pc' = [pc EXCEPT ![t] = "rb_body"]
    /\ UNCHANGED <<envVars, snapVars, allocated_ports, port_file, grant_count, brokerVars,
                   coordVars, call>>

\* Lines 259-275 and 289-305: delete every matching entry, save if any was
\* deleted, return the released ports.
BulkBody(t) ==
    /\ pc[t] = "rb_body"
    /\ LET ports_to_release == BulkMatches(allocated_ports, call[t].op, call[t].service,
                                           call[t].client_id)
       IN  /\ allocated_ports' = [p \in DOMAIN allocated_ports \ ports_to_release |->
                                     allocated_ports[p]]
           /\ IF ports_to_release # {}
              THEN \E write_ok \in WriteOutcomes :
                      /\ port_file' = SaveAllocatedPorts(allocated_ports', port_file, write_ok)
                      /\ call' = [call EXCEPT ![t].released = ports_to_release,
                                               ![t].ok = TRUE, ![t].changed = TRUE,
                                               ![t].saved = write_ok]
              ELSE /\ port_file' = port_file
                   /\ call' = [call EXCEPT ![t].released = {}, ![t].ok = TRUE]
           /\ grant_count' = [p \in Ports |-> IF p \in ports_to_release THEN 0
                                               ELSE grant_count[p]]
    /\ port_lock' = NoThread
    /\ pc' = [pc EXCEPT ![t] = "done"]
    /\ UNCHANGED <<envVars, snapVars, brokerVars, coordVars>>

\* The call has returned; the thread is free for its next call.
Finish(t) ==
    /\ pc[t] = "done"
    /\ pc' = [pc EXCEPT ![t] = "idle"]
    /\ call' = [call EXCEPT ![t] = IdleCall]
    /\ UNCHANGED <<envVars, snapVars, allocVars, brokerVars, coordVars>>


\* The process ends right after a call has returned and is started again:
\* PortManager.__init__ loads the table from the allocation file (lines
\* 76-97); no call is in progress and the lock is new.
Restart ==
    /\ pc[Caller] \in {"idle", "done"}
    /\ allocated_ports' = port_file
    /\ port_lock' = NoThread
    /\ grant_count' = [p \in Ports |-> 0]
    /\ pc' = [pc EXCEPT ![Caller] = "idle"]
    /\ call' = [call EXCEPT ![Caller] = IdleCall]
    /\ UNCHANGED <<envVars, snapVars, port_file, brokerVars, coordVars>>
(***************************************************************************)
(* Spec: the constructor's reconciliation, then the orchestrator's public  *)
(* operations called one at a time.                                        *)
(***************************************************************************)
Frame(op) == [IdleCall EXCEPT !.op = op, !.pre = CurrentStores]

\* DynamicTunnelManager.__init__, line 38: the last step of construction.
\* The frame keeps what the stores held and whether the list call answered.
LoadTunnelMappings ==
    /\ phase = "boot"
    /\ \E list_ok \in BOOLEAN :
          /\ SetStores(LoadTunnelMappingsOp(CurrentStores, list_ok))
          /\ call' = [call EXCEPT ![Caller] =
                        [Frame("_load_tunnel_mappings") EXCEPT !.result = list_ok]]
    /\ phase' = "ready"
    /\ UNCHANGED <<strategy, port_range_end, disk_faulty, broker_flaky, broker_ids, snapVars, lockVars,
                   coordVars, pc>>

\* Arguments of the orchestrator calls made from outside the coordinator.
OtherTarget == "10.0.0.9:80"
NewRemark == "web frontend"
PortArgs == {NoPort, PortStart + 2}
RemarkArgs == {NoText, NewRemark}

TopCreateTunnel(t) ==
    /\ pc[t] = "idle" /\ phase = "ready"
    /\ \E preferred \in PreferredArgs :
       \E port \in PortOutcomes(preferred) :
       \E add_ok \in AddOutcomes(port), poll \in PollOutcomes :
          LET r == CreateTunnelOp(CurrentStores, OtherTarget, "http", 0, NoText, port,
                                  add_ok, FreshId, poll, TRUE)
          IN  /\ SetStores(r.st)
              /\ call' = [call EXCEPT ![t] =
                            [Frame("create_tunnel") EXCEPT
                                !.service = "http", !.preferred = preferred, !.port = port,
                                !.info = r.info, !.nps_calls = r.nps_calls,
                                !.result = add_ok, !.poll = IF add_ok THEN poll ELSE 0,
                                !.ok = (r.info.port # NoPort)]]
    /\ pc' = [pc EXCEPT ![t] = "done"]
    /\ UNCHANGED <<envVars, snapVars, lockVars, coordVars>>

TopDeleteTunnel(t) ==
    /\ pc[t] = "idle" /\ phase = "ready"
    /\ \E tunnel_id \in Ids, del_ok \in DeleteOutcomes :
          LET r == DeleteTunnelOp(CurrentStores, tunnel_id, del_ok, TRUE)
          IN  /\ SetStores(r.st)
              /\ call' = [call EXCEPT ![t] =
                            [Frame("delete_tunnel") EXCEPT
                                !.tunnel_id = tunnel_id, !.nps_calls = 1,
                                !.result = del_ok, !.ok = r.ok]]
    /\ pc' = [pc EXCEPT ![t] = "done"]
    /\ UNCHANGED <<envVars, snapVars, lockVars, coordVars>>

TopUpdateTunnel(t) ==
    /\ pc[t] = "idle" /\ phase = "ready"
    /\ \E tunnel_id \in Ids, port \in PortArgs, remark \in RemarkArgs, upd_ok \in BOOLEAN :
          LET r == UpdateTunnelOp(CurrentStores, tunnel_id, NoText, port, remark, upd_ok, TRUE)
          IN  /\ SetStores(r.st)
              /\ call' = [call EXCEPT ![t] =
                            [Frame("update_tunnel") EXCEPT
                                !.tunnel_id = tunnel_id, !.port = port,
                                !.result = upd_ok, !.ok = r.ok]]
    /\ pc' = [pc EXCEPT ![t] = "done"]
    /\ UNCHANGED <<envVars, snapVars, lockVars, coordVars>>

TopGetTunnelInfo(t) ==
    /\ pc[t] = "idle" /\ phase = "ready"
    /\ \E tunnel_id \in Ids, get_ok \in BOOLEAN :
          LET r == GetTunnelInfoOp(CurrentStores, tunnel_id, get_ok)
          IN  /\ SetStores(r.st)
              /\ call' = [call EXCEPT ![t] =
                            [Frame("get_tunnel_info") EXCEPT
                                !.tunnel_id = tunnel_id, !.info = r.info,
                                !.ok = (r.info.port # NoPort)]]
    /\ pc' = [pc EXCEPT ![t] = "done"]
    /\ UNCHANGED <<envVars, snapVars, lockVars, coordVars>>


(***************************************************************************)
(* update_tunnel and get_tunnel_info, step by step (SpecRace): each is     *)
(* split where it reads the allocation table and where it writes it, the   *)
(* places at which another thread's allocate_port or release_port can run. *)
(***************************************************************************)
BeginUpdateTunnel(t) ==
    /\ pc[t] = "idle" /\ phase = "ready"
    /\ \E tunnel_id \in Ids, port \in PortArgs :
          call' = [call EXCEPT ![t] =
                      [IdleCall EXCEPT !.op = "update_tunnel", !.tunnel_id = tunnel_id, !.port = port]]
    /\ pc' = [pc EXCEPT ![t] = "ut_check"]
    /\ UNCHANGED <<envVars, snapVars, allocVars, brokerVars, coordVars>>

\* Lines 265-295: the cache lookup, the no-change return, and the call of
\* _is_port_available, made without the lock.
UpdateCheck(t) ==
    /\ pc[t] = "ut_check"
    /\ LET tunnel_id == call[t].tunnel_id
           port == call[t].port
       IN  IF tunnel_id \notin DOMAIN tunnel_mappings
           THEN /\ call' = [call EXCEPT ![t].ok = FALSE]
                /\ pc' = [pc EXCEPT ![t] = "done"]
           ELSE IF port = NoPort \/ port = tunnel_mappings[tunnel_id].port
           THEN /\ call' = [call EXCEPT ![t].ok = TRUE]
                /\ pc' = [pc EXCEPT ![t] = "done"]
           ELSE IF ~IsPortAvailable(allocated_ports, port)
           THEN /\ call' = [call EXCEPT ![t].ok = FALSE]
                /\ pc' = [pc EXCEPT ![t] = "done"]
           ELSE /\ call' = [call EXCEPT ![t].service = tunnel_mappings[tunnel_id].service,
                                        ![t].client_id = tunnel_mappings[tunnel_id].client_id]
                /\ pc' = [pc EXCEPT ![t] = "ut_mark"]
    /\ UNCHANGED <<envVars, snapVars, allocVars, brokerVars, coordVars>>

\* Lines 298-300: _mark_port_allocated writes the table, without the lock
\* and without saving; its value None makes the call return False.
UpdateMark(t) ==
    /\ pc[t] = "ut_mark"
    /\ ~MarkPortAllocatedResult
    /\ allocated_ports' = MarkPortAllocated(allocated_ports, call[t].port,
                                            call[t].service, call[t].client_id)
    /\ call' = [call EXCEPT ![t].ok = FALSE]
    /\ pc' = [pc EXCEPT ![t] = "done"]
    /\ UNCHANGED <<envVars, snapVars, port_file, lockVars, brokerVars, coordVars>>

BeginGetTunnelInfo(t) ==
    /\ pc[t] = "idle" /\ phase = "ready"
    /\ \E tunnel_id \in Ids :
          call' = [call EXCEPT ![t] =
                      [IdleCall EXCEPT !.op = "get_tunnel_info", !.tunnel_id = tunnel_id]]
    /\ pc' = [pc EXCEPT ![t] = "gi_fetch"]
    /\ UNCHANGED <<envVars, snapVars, allocVars, brokerVars, coordVars>>

\* Lines 350-389: the cached record, or the broker's tunnel written to the cache.
GetInfoFetch(t) ==
    /\ pc[t] = "gi_fetch"
    /\ LET tunnel_id == call[t].tunnel_id
       IN  IF tunnel_id \in DOMAIN tunnel_mappings
           THEN /\ call' = [call EXCEPT ![t].info =
                                GetTunnelInfoOp(CurrentStores, tunnel_id, TRUE).info,
                                        ![t].ok = TRUE]
                /\ pc' = [pc EXCEPT ![t] = "done"]
                /\ UNCHANGED tunnel_mappings
           ELSE \E get_ok \in BOOLEAN :
                   IF ~(get_ok /\ tunnel_id \in DOMAIN nps_tunnels)
                   THEN /\ call' = [call EXCEPT ![t].info = NoTunnel, ![t].ok = FALSE]
                        /\ pc' = [pc EXCEPT ![t] = "done"]
                        /\ UNCHANGED tunnel_mappings
                   ELSE LET row == nps_tunnels[tunnel_id]
                            service == InferService(row.Remark, row.Target)
                        IN  /\ tunnel_mappings' =
                                   MapPut(tunnel_mappings, tunnel_id,
                                          MappingRecord(row.Port, service, row.Client,
                                                        row.Target, row.Remark))
                            /\ call' = [call EXCEPT
                                           ![t].port = row.Port, ![t].service = service,
                                           ![t].client_id = row.Client,
                                           ![t].info = TunnelInfo(tunnel_id, row.Port, service,
                                                                  row.Client, row.Target,
                                                                  row.Remark)]
                            /\ pc' = [pc EXCEPT ![t] = "gi_check"]
    /\ UNCHANGED <<envVars, snapVars, allocVars, nps_tunnels, coordVars>>

\* Line 392: is_port_allocated takes the lock for the time of its lookup.
GetInfoCheck(t) ==
    /\ pc[t] = "gi_check"
    /\ LockAvailable(t)
    /\ IF call[t].port \in DOMAIN allocated_ports
       THEN /\ call' = [call EXCEPT ![t].ok = TRUE]
            /\ pc' = [pc EXCEPT ![t] = "done"]
       ELSE /\ call' = call
            /\ pc' = [pc EXCEPT ![t] = "gi_mark"]
    /\ UNCHANGED <<envVars, snapVars, allocVars, brokerVars, coordVars>>

\* Lines 393-398: _mark_port_allocated writes the table, without the lock.
GetInfoMark(t) ==
    /\ pc[t] = "gi_mark"
    /\ allocated_ports' = MarkPortAllocated(allocated_ports, call[t].port,
                                            call[t].service, call[t].client_id)
    /\ call' = [call EXCEPT ![t].ok = TRUE]
    /\ pc' = [pc EXCEPT ![t] = "done"]
    /\ UNCHANGED <<envVars, snapVars, port_file, lockVars, brokerVars, coordVars>>

(***************************************************************************)
(* The broker client: nps_manager.py.  _send_request makes its HTTP        *)
(* attempts one step each (SpecRequest); add_tunnel, update_tunnel and     *)
(* delete_tunnel turn its response into the boolean the orchestrator gets. *)
(***************************************************************************)
RetryCount == 3         \* config["api"]["retry_count"]

\* What one HTTP attempt can end in.
AttemptOutcomes ==
    {"timeout", "http_error", "connection_error", "unexpected_error",
     "json_status_1", "json_status_0", "bad_json", "text_success", "text_other"}

\* _send_request's value: None, or the dictionary it returns.
Response(received, status, msg) == [received |-> received, status |-> status, msg |-> msg]
NoResponse == Response(FALSE, 0, "")

\* Lines 206-227, with the mistake of also retrying a response whose JSON
\* cannot be decoded.
Retried_AlsoDecodeError(outcome) ==
    outcome \in {"timeout", "http_error", "connection_error", "bad_json"}

\* Lines 206-227: the three except clauses that sleep and go round again.
Retried(outcome) == outcome \in {"timeout", "http_error", "connection_error"}

\* Lines 180-204 and 228-231: what an attempt that ends the call returns.
ResponseOf(outcome) ==
    IF outcome = "json_status_1" THEN Response(TRUE, 1, "")
    ELSE IF outcome = "json_status_0" THEN Response(TRUE, 0, "rejected")
    ELSE IF outcome = "bad_json" THEN Response(TRUE, 0, "JSON Decode Error")
    ELSE IF outcome = "text_success" THEN Response(TRUE, 1, "Success (interpreted)")
    ELSE IF outcome = "text_other" THEN Response(TRUE, 0, "Non-JSON response or failure")
    ELSE NoResponse

\* success = response is not None and response.get('status') == 1
ClientResult(response) == response.received /\ response.status = 1

\* The client calls the orchestrator makes.
ClientOps == {"nps.add_tunnel", "nps.update_tunnel", "nps.delete_tunnel", "nps.list_tunnels"}

BeginRequest(t) ==
    /\ pc[t] = "idle"
    /\ \E op \in ClientOps : call' = [call EXCEPT ![t] = [IdleCall EXCEPT !.op = op]]
    /\ pc' = [pc EXCEPT ![t] = "sr_attempt"]
    /\ UNCHANGED <<envVars, snapVars, allocVars, brokerVars, coordVars>>

\* Lines 167-233: one round of the loop.  The round that ends the call also
\* makes the client method return: a boolean for add, update and delete,
\* the response itself for the list.
SendAttempt(t) ==
    /\ pc[t] = "sr_attempt"
    /\ \E outcome \in AttemptOutcomes :
          LET attempt == Len(call[t].log)
              log == Append(call[t].log, outcome)
          IN  IF Retried(outcome) /\ attempt # RetryCount - 1
              THEN /\ call' = [call EXCEPT ![t].log = log]
                   /\ pc' = pc
              ELSE LET response == IF Retried(outcome) THEN NoResponse
                                   ELSE ResponseOf(outcome)
                   IN  /\ call' = [call EXCEPT
                                      ![t].log = log, ![t].response = response,
                                      ![t].ok = IF call[t].op = "nps.list_tunnels"
                                                THEN response.received
                                                ELSE ClientResult(response)]
                       /\ pc' = [pc EXCEPT ![t] = "done"]
    /\ UNCHANGED <<envVars, snapVars, allocVars, brokerVars, coordVars>>
(***************************************************************************)
(* Container lifecycle coordinator: container_manager.py.  A handler is a  *)
(* sequence of steps, one per call to the runtime or to the orchestrator.  *)
(***************************************************************************)
ContainerIp == "172.17.0.2"

\* f"{container_ip}:{internal_port}" with the ports of the configuration.
TargetOf(service) ==
    ContainerIp \o (IF service = "ssh" THEN ":22"
                    ELSE IF service = "jupyter" THEN ":8888" ELSE ":5000")

\* f"Container:{name}_Service:{service_name}"
RemarkOf(name, service) == "Container:" \o name \o "_Service:" \o service

\* The returned dict, with the mistake of keeping the service names as keys.
PortsOf_ByService(binding) == [s \in DOMAIN binding |-> binding[s].port]

\* Lines 385, 439 and 552: the key of a service in the returned dict.
PortKey(service) == service \o "_port"

\* ports_info: the public port of every tunnel of a binding, by port key.
PortsOf(binding) ==
    [k \in {PortKey(s) : s \in DOMAIN binding} |->
        binding[CHOOSE s \in DOMAIN binding : PortKey(s) = k].port]

\* get_container_ports, with the mistake of never finding a binding.
GetContainerPorts_None(name) == EmptyMap

\* get_container_ports: the ports of the stored binding, None without one.
GetContainerPorts(name) ==
    IF name \in DOMAIN container_tunnels
    THEN PortsOf(container_tunnels[name]) ELSE EmptyMap

\* The tunnels of a dict in its insertion order, which is the service order.
RECURSIVE InOrder(_, _)
InOrder(binding, i) ==
    IF i > Len(ServiceOrder) THEN <<>>
    ELSE IF ServiceOrder[i] \in DOMAIN binding
         THEN <<binding[ServiceOrder[i]]>> \o InOrder(binding, i + 1)
         ELSE InOrder(binding, i + 1)

HistoryOf(name) == IF name \in DOMAIN image_history THEN image_history[name] ELSE <<>>

\* container.stop(); container.remove() inside one try block: both done, the
\* stop raised (the container keeps running), or the remove raised.
CleanupOutcomes == {"removed", "stop_failed", "remove_failed"}
AfterCleanup(name, outcome) ==
    IF outcome = "removed" THEN MapRemove(containers, name)
    ELSE IF outcome = "remove_failed" THEN MapPut(containers, name, "exited")
    ELSE containers

Return(t, ok, ports) ==
    /\ call' = [call EXCEPT ![t].ok = ok, ![t].ports = ports]
    /\ pc' = [pc EXCEPT ![t] = "done"]

\* The coordinator's constructor creates no lock (lines 38-74) and no
\* handler marks a name as being worked on: a call on a name may begin
\* whatever the other threads are doing with that name.
MayEnter_OneCallPerName(t, name) ==
    \A u \in Threads \ {t} : pc[u] = "idle" \/ call[u].name # name

MayEnter(t, name) == TRUE

\* The names a thread may begin a call on.
EnterNames(t) == {name \in Names : MayEnter(t, name)}

\* ---- create_container -------------------------------------------------
\* Lines 203-214: an existing container answers with its stored ports.
BeginCreateContainer(t) ==
    /\ pc[t] = "idle" /\ phase = "ready"
    /\ \E name \in EnterNames(t), docker_ok \in BOOLEAN :
          /\ Len(HistoryOf(name)) < MaxHistoryLen
          /\ LET f == [Frame("create_container") EXCEPT !.name = name, !.image = BaseImage]
             IN  IF ~docker_ok
                 THEN /\ call' = [call EXCEPT ![t] = f]
                      /\ pc' = [pc EXCEPT ![t] = "done"]
                 ELSE IF name \in DOMAIN containers
                 THEN /\ call' = [call EXCEPT ![t] =
                                    [f EXCEPT !.ports = GetContainerPorts(name),
                                              !.ok = (GetContainerPorts(name) # EmptyMap),
                                              !.runtime = "exists"]]
                      /\ pc' = [pc EXCEPT ![t] = "done"]
                 ELSE /\ call' = [call EXCEPT ![t] = f]
                      /\ pc' = [pc EXCEPT ![t] = "cc_run"]
    /\ UNCHANGED <<envVars, snapVars, allocVars, brokerVars, coordVars>>

\* Lines 325-348: containers.run, which fetches an image the runtime does
\* not hold; then the image is recorded and saved.
CreateRun(t) ==
    /\ pc[t] = "cc_run"
    /\ LET name == call[t].name
       IN  \E run_ok \in BOOLEAN :
              IF run_ok
              THEN /\ containers' = MapPut(containers, name, "running")
                   /\ container_images' = MapPut(container_images, name, call[t].image)
                   /\ image_history' = MapPut(image_history, name,
                                              Append(HistoryOf(name), call[t].image))
                   /\ images' = images \cup {call[t].image}
                   /\ call' = [call EXCEPT ![t].handle = TRUE]
                   /\ pc' = [pc EXCEPT ![t] = "cc_ip"]
              ELSE /\ UNCHANGED <<containers, container_images, image_history, images>>
                   /\ Return(t, FALSE, EmptyMap)
    /\ UNCHANGED <<envVars, clock, last_version, allocVars, brokerVars, container_tunnels>>

\* Lines 350-361: no address: the container is stopped and removed.
CreateGetIp(t) ==
    /\ pc[t] = "cc_ip"
    /\ \E ip_ok \in BOOLEAN :
          IF ip_ok
          THEN /\ call' = [call EXCEPT ![t].idx = 1]
               /\ pc' = [pc EXCEPT ![t] = "cc_tunnel"]
               /\ UNCHANGED containers
          ELSE /\ \E outcome \in CleanupOutcomes :
                     containers' = AfterCleanup(call[t].name, outcome)
               /\ Return(t, FALSE, EmptyMap)
    /\ UNCHANGED <<envVars, snapVars, allocVars, brokerVars, container_images, image_history,
                   container_tunnels>>

\* The loop over services_to_tunnel, with the mistake of going on after a
\* failed ssh tunnel.
LoopExit_NoBreak(service, failed) == FALSE

\* Lines 390-391 (and 559-560): the loop is left when the ssh tunnel failed.
LoopExit(service, failed) == failed /\ service = "ssh"

\* One pass of the loop over services_to_tunnel (lines 374-391, 540-560):
\* create_tunnel for the service at idx; then on to the next service, to
\* the rollback, or to the storing of the binding.
TunnelLoopStep(t, loop_pc, rollback_pc, commit_pc) ==
    LET service == ServiceOrder[call[t].idx]
        name == call[t].name
    IN  \E port \in PortOutcomes(NoPort) :
        \E add_ok \in AddOutcomes(port), poll \in PollOutcomes :
           LET r == CreateTunnelOp(CurrentStores, TargetOf(service), service, 0,
                                   RemarkOf(name, service), port, add_ok, FreshId,
                                   poll, TRUE)
               good == r.info.port # NoPort
               created1 == IF good THEN MapPut(call[t].created, service, r.info)
                           ELSE call[t].created
               failed1 == IF good THEN call[t].failed ELSE call[t].failed \cup {service}
               last == call[t].idx = Len(ServiceOrder) \/ LoopExit(service, ~good)
           IN  /\ SetStores(r.st)
               /\ call' = [call EXCEPT ![t].created = created1,
                                       ![t].failed = failed1,
                                       ![t].attempted = @ \cup {service},
                                       ![t].idx = IF last THEN @ ELSE @ + 1,
                                       ![t].todo = IF last /\ failed1 # {}
                                                   THEN InOrder(created1, 1) ELSE <<>>]
               /\ pc' = [pc EXCEPT ![t] = IF ~last THEN loop_pc
                                          ELSE IF failed1 # {} THEN rollback_pc
                                          ELSE commit_pc]

CreateTunnels(t) ==
    /\ pc[t] = "cc_tunnel"
    /\ TunnelLoopStep(t, "cc_tunnel", "cc_rollback", "cc_commit")
    /\ UNCHANGED <<envVars, snapVars, lockVars, coordVars>>

\* Lines 395-397 (and 565-567): a created tunnel is deleted when its id is
\* known; the result of the deletion is not looked at.
RollbackStep(t) ==
    LET info == Head(call[t].todo)
    IN  IF info.tunnel_id = NoId
        THEN /\ UNCHANGED <<allocated_ports, port_file, nps_tunnels, tunnel_mappings>>
             /\ call' = [call EXCEPT ![t].todo = Tail(@)]
        ELSE \E del_ok \in DeleteOutcomes :
                LET r == DeleteTunnelOp(CurrentStores, info.tunnel_id, del_ok, TRUE)
                IN  /\ SetStores(r.st)
                    /\ call' = [call EXCEPT ![t].todo = Tail(@),
                                            ![t].del_attempted = @ \cup {info.tunnel_id},
                                            ![t].del_failed = IF r.ok THEN @
                                                              ELSE @ \cup {info.tunnel_id},
                                            ![t].undone = @ \/ ~r.ok]

CreateRollbackTunnels(t) ==
    /\ pc[t] = "cc_rollback"
    /\ call[t].todo # <<>>
    /\ RollbackStep(t)
    /\ UNCHANGED <<envVars, snapVars, lockVars, coordVars, pc>>

\* Lines 398-408: stop and remove the container, drop the records, None.
CreateRollbackContainer(t) ==
    /\ pc[t] = "cc_rollback"
    /\ call[t].todo = <<>>
    /\ LET name == call[t].name
       IN  /\ \E outcome \in CleanupOutcomes :
                 /\ containers' = AfterCleanup(name, outcome)
                 /\ call' = [call EXCEPT ![t].ok = FALSE, ![t].ports = EmptyMap,
                                         ![t].undone = @ \/ outcome # "removed"]
           /\ container_images' = MapRemove(container_images, name)
           /\ image_history' = MapRemove(image_history, name)
           /\ last_version' = MapRemove(last_version, name)
           /\ container_tunnels' = MapRemove(container_tunnels, name)
    /\ pc' = [pc EXCEPT ![t] = "done"]
    /\ UNCHANGED <<envVars, images, clock, allocVars, brokerVars>>

\* Lines 410-413: the binding is stored and the ports returned.
CreateCommit(t) ==
    /\ pc[t] = "cc_commit"
    /\ container_tunnels' = MapPut(container_tunnels, call[t].name, call[t].created)
    /\ Return(t, TRUE, PortsOf(call[t].created))
    /\ UNCHANGED <<envVars, snapVars, allocVars, brokerVars, containers, container_images,
                   image_history>>

\* ---- start_container --------------------------------------------------
\* Lines 502-512: a running container answers with its stored ports; a
\* stopped one is started.
BeginStartContainer(t) ==
    /\ pc[t] = "idle" /\ phase = "ready"
    /\ \E name \in EnterNames(t), docker_ok \in BOOLEAN :
          LET f == [Frame("start_container") EXCEPT
                       !.name = name,
                       !.pre_bound = IF name \in DOMAIN container_tunnels
                                     THEN container_tunnels[name] ELSE EmptyMap]
          IN  IF ~docker_ok \/ name \notin DOMAIN containers
              THEN /\ call' = [call EXCEPT ![t] = f]
                   /\ pc' = [pc EXCEPT ![t] = "done"]
                   /\ UNCHANGED containers
              ELSE IF containers[name] = "running"
              THEN /\ call' = [call EXCEPT ![t] =
                                 [f EXCEPT !.ports = GetContainerPorts(name),
                                           !.ok = (GetContainerPorts(name) # EmptyMap),
                                           !.runtime = "running", !.handle = TRUE]]
                   /\ pc' = [pc EXCEPT ![t] = "done"]
                   /\ UNCHANGED containers
              ELSE \E start_ok \in BOOLEAN :
                      IF start_ok
                      THEN /\ containers' = [containers EXCEPT ![name] = "running"]
                           /\ call' = [call EXCEPT ![t] = [f EXCEPT !.handle = TRUE]]
                           /\ pc' = [pc EXCEPT ![t] = "st_ip"]
                      ELSE /\ UNCHANGED containers
                           /\ call' = [call EXCEPT ![t] = [f EXCEPT !.handle = TRUE]]
                           /\ pc' = [pc EXCEPT ![t] = "done"]
    /\ UNCHANGED <<envVars, snapVars, allocVars, brokerVars, container_images, image_history,
                   container_tunnels>>

\* The stop, with the mistake of taking the container out of the runtime.
AfterStop_Removes(name, stop_ok) ==
    IF stop_ok THEN MapRemove(containers, name) ELSE containers

\* container.stop() inside "try: ... except: pass".
AfterStop(name, stop_ok) ==
    IF stop_ok /\ name \in DOMAIN containers
    THEN [containers EXCEPT ![name] = "exited"] ELSE containers

\* Lines 515-522: no address: the container is stopped again.
StartGetIp(t) ==
    /\ pc[t] = "st_ip"
    /\ \E ip_ok \in BOOLEAN :
          IF ip_ok
          THEN /\ call' = [call EXCEPT ![t].idx = 1]
               /\ pc' = [pc EXCEPT ![t] = "st_tunnel"]
               /\ UNCHANGED containers
          ELSE /\ \E stop_ok \in BOOLEAN : containers' = AfterStop(call[t].name, stop_ok)
               /\ Return(t, FALSE, EmptyMap)
    /\ UNCHANGED <<envVars, snapVars, allocVars, brokerVars, container_images, image_history,
                   container_tunnels>>

StartTunnels(t) ==
    /\ pc[t] = "st_tunnel"
    /\ TunnelLoopStep(t, "st_tunnel", "st_rollback", "st_commit")
    /\ UNCHANGED <<envVars, snapVars, lockVars, coordVars>>

StartRollbackTunnels(t) ==
    /\ pc[t] = "st_rollback"
    /\ call[t].todo # <<>>
    /\ RollbackStep(t)
    /\ UNCHANGED <<envVars, snapVars, lockVars, coordVars, pc>>

\* Lines 568-570: the container is stopped, not removed; None.
StartRollbackContainer(t) ==
    /\ pc[t] = "st_rollback"
    /\ call[t].todo = <<>>
    /\ \E stop_ok \in BOOLEAN :
          /\ containers' = AfterStop(call[t].name, stop_ok)
          /\ call' = [call EXCEPT ![t].ok = FALSE, ![t].ports = EmptyMap,
                                  ![t].undone = @ \/ ~stop_ok]
    /\ pc' = [pc EXCEPT ![t] = "done"]
    /\ UNCHANGED <<envVars, snapVars, allocVars, brokerVars, container_images, image_history,
                   container_tunnels>>

\* Lines 573-578: the binding is stored and the ports returned.
StartCommit(t) ==
    /\ pc[t] = "st_commit"
    /\ container_tunnels' = MapPut(container_tunnels, call[t].name, call[t].created)
    /\ Return(t, TRUE, PortsOf(call[t].created))
    /\ UNCHANGED <<envVars, snapVars, allocVars, brokerVars, containers, container_images,
                   image_history>>

\* ---- stop_container ---------------------------------------------------
BeginStopContainer(t) ==
    /\ pc[t] = "idle" /\ phase = "ready"
    /\ \E name \in EnterNames(t) :
          call' = [call EXCEPT ![t] = [Frame("stop_container") EXCEPT !.name = name]]
    /\ pc' = [pc EXCEPT ![t] = "sc_stop"]
    /\ UNCHANGED <<envVars, snapVars, allocVars, brokerVars, coordVars>>

\* What containers.get and container.stop can do, lines 447-464:
\*   "ok"              the container was found and stopped
\*   "stop_api_error"  it was found and stop raised APIError
\*   "stop_error"      it was found and stop raised something else
\*   "not_found"       get raised NotFound
\*   "get_error"       get raised APIError or something else
StopOutcomes(name) ==
    IF name \in DOMAIN containers
    THEN {"ok", "stop_api_error", "stop_error", "get_error"}
    ELSE {"not_found", "get_error"}

\* "container is not None" at line 498: get returned the container.
HasHandle(outcome) == outcome \in {"ok", "stop_api_error", "stop_error"}

\* Lines 446-470: the runtime stop, then the binding is taken out of the
\* dict and the state file rewritten.
StopRuntime(t) ==
    /\ pc[t] = "sc_stop"
    /\ LET name == call[t].name
           binding == IF name \in DOMAIN container_tunnels
                      THEN container_tunnels[name] ELSE EmptyMap
       IN  /\ \E outcome \in StopOutcomes(name) :
                 /\ containers' = AfterStop(name, outcome = "ok")
                 /\ call' = [call EXCEPT ![t].runtime = outcome,
                                         ![t].handle = HasHandle(outcome),
                                         ![t].cleanup_ok = TRUE,
                                         ![t].bound = binding,
                                         ![t].todo = InOrder(binding, 1),
                                         ![t].del_attempted = {},
                                         ![t].del_failed = {}]
           /\ container_tunnels' = MapRemove(container_tunnels, name)
    /\ pc' = [pc EXCEPT ![t] = "sc_del"]
    /\ UNCHANGED <<envVars, snapVars, allocVars, brokerVars, container_images, image_history>>

\* Lines 474-488: one tunnel of the binding: deleted when it has an id, a
\* warning when it has none.
StopDeleteTunnel(t) ==
    /\ pc[t] = "sc_del"
    /\ call[t].todo # <<>>
    /\ LET info == Head(call[t].todo)
       IN  IF info.tunnel_id = NoId
           THEN /\ UNCHANGED <<allocated_ports, port_file, nps_tunnels, tunnel_mappings>>
                /\ call' = [call EXCEPT ![t].todo = Tail(@)]
           ELSE \E del_ok \in DeleteOutcomes :
                   LET r == DeleteTunnelOp(CurrentStores, info.tunnel_id, del_ok, TRUE)
                   IN  /\ SetStores(r.st)
                       /\ call' = [call EXCEPT
                                      ![t].todo = Tail(@),
                                      ![t].del_attempted = @ \cup {info.tunnel_id},
                                      ![t].del_failed = IF r.ok THEN @
                                                        ELSE @ \cup {info.tunnel_id},
                                      ![t].cleanup_ok = @ /\ r.ok]
    /\ UNCHANGED <<envVars, snapVars, lockVars, coordVars, pc>>

\* "not docker.errors.NotFound": the class object is truthy.
NotOfNotFoundClass == FALSE

\* Line 498: (container is not None or not docker.errors.NotFound) and
\* tunnel_cleanup_success.
StopResult(handle, cleanup_ok) ==
    (handle \/ NotOfNotFoundClass) /\ cleanup_ok

StopReturn(t) ==
    /\ pc[t] = "sc_del"
    /\ call[t].todo = <<>>
    /\ call' = [call EXCEPT ![t].ok =
                   StopResult(call[t].handle, call[t].cleanup_ok)]
    /\ pc' = [pc EXCEPT ![t] = "sc_done"]
    /\ UNCHANGED <<envVars, snapVars, allocVars, brokerVars, coordVars>>

\* stop_container has returned: to its caller inside remove_container or
\* stop_and_commit, or to the caller of the coordinator.
StopExit(t) ==
    /\ pc[t] = "sc_done"
    /\ IF call[t].caller = "remove_container"
       THEN /\ pc' = [pc EXCEPT ![t] = "rm_remove"]
            /\ call' = call
       ELSE IF call[t].caller = "stop_and_commit"
       THEN /\ pc' = [pc EXCEPT ![t] = "sac_commit"]
            /\ call' = call
       ELSE /\ pc' = [pc EXCEPT ![t] = "idle"]
            /\ call' = [call EXCEPT ![t] = IdleCall]
    /\ UNCHANGED <<envVars, snapVars, allocVars, brokerVars, coordVars>>

\* ---- remove_container -------------------------------------------------
BeginRemoveContainer(t) ==
    /\ pc[t] = "idle" /\ phase = "ready"
    /\ \E name \in EnterNames(t), remove_snapshots \in BOOLEAN :
          call' = [call EXCEPT ![t] =
                      [Frame("remove_container") EXCEPT
                          !.name = name, !.remove_snapshots = remove_snapshots,
                          !.pre_bound = IF name \in DOMAIN container_tunnels
                                        THEN container_tunnels[name] ELSE EmptyMap,
                          !.pre_status = IF name \in DOMAIN containers
                                         THEN containers[name] ELSE "absent"]]
    /\ pc' = [pc EXCEPT ![t] = "rm_check"]
    /\ UNCHANGED <<envVars, snapVars, allocVars, brokerVars, coordVars>>

\* Lines 597-622: a running container goes through stop_container; for a
\* container that is not there the residual binding is taken out.
RemoveCheck(t) ==
    /\ pc[t] = "rm_check"
    /\ LET name == call[t].name
       IN  \E docker_ok \in BOOLEAN :
              IF ~docker_ok
              THEN /\ call' = [call EXCEPT ![t].exists = TRUE, ![t].container = FALSE]
                   /\ pc' = [pc EXCEPT ![t] = "rm_remove"]
                   /\ UNCHANGED container_tunnels
              ELSE IF name \notin DOMAIN containers
              THEN /\ call' = [call EXCEPT
                                 ![t].exists = FALSE, ![t].container = FALSE,
                                 ![t].todo = IF name \in DOMAIN container_tunnels
                                             THEN InOrder(container_tunnels[name], 1)
                                             ELSE <<>>]
                   /\ container_tunnels' = MapRemove(container_tunnels, name)
                   /\ pc' = [pc EXCEPT ![t] = "rm_del"]
              ELSE /\ call' = [call EXCEPT
                                 ![t].exists = TRUE, ![t].container = TRUE,
                                 ![t].caller = IF containers[name] = "running"
                                               THEN "remove_container" ELSE @]
                   /\ pc' = [pc EXCEPT ![t] = IF containers[name] = "running"
                                              THEN "sc_stop" ELSE "rm_remove"]
                   /\ UNCHANGED container_tunnels
    /\ UNCHANGED <<envVars, snapVars, allocVars, brokerVars, containers, container_images,
                   image_history>>

\* Lines 613-616: the residual tunnels that have an id are deleted.
RemoveDeleteResidual(t) ==
    /\ pc[t] = "rm_del"
    /\ call[t].todo # <<>>
    /\ RollbackStep(t)
    /\ UNCHANGED <<envVars, snapVars, lockVars, coordVars, pc>>

RemoveResidualDone(t) ==
    /\ pc[t] = "rm_del"
    /\ call[t].todo = <<>>
    /\ pc' = [pc EXCEPT ![t] = "rm_remove"]
    /\ UNCHANGED <<envVars, snapVars, allocVars, brokerVars, coordVars, call>>

\* The distinct tags of a history.
TagsOf(history) == {history[i] : i \in 1 .. Len(history)}

\* Lines 661-676: images.remove(tag, force=True) for every tag of the popped
\* history; failing: the tags on which the runtime raises an error.
RemoveSnapshotImages(imgs, history, failing) == imgs \ (TagsOf(history) \ failing)

\* The snapshot cleanup, with the mistake of counting failed deletions as
\* success.
SnapshotCleaned_Always(failing) == TRUE

\* Line 680: the snapshot cleanup succeeded when no deletion failed.
SnapshotCleaned(failing) == failing = {}

\* remove_container returns: to start_from_snapshot (line 919) or to the
\* caller of the coordinator.
RemoveExit(t) == IF call[t].rm_caller = "start_from_snapshot" THEN "sfs_removed" ELSE "done"

\* Lines 624-699: the forced remove, then the image record, the snapshots
\* when asked for, and the binding are dropped.
RemoveFinish(t) ==
    /\ pc[t] = "rm_remove"
    /\ LET name == call[t].name
           has_handle == call[t].exists /\ call[t].container
           image_record_cleaned == name \in DOMAIN container_images
           drop_history == call[t].remove_snapshots /\ name \in DOMAIN image_history
       IN  \E remove_ok \in (IF has_handle THEN BOOLEAN ELSE {TRUE}),
              failing \in (IF drop_history THEN SUBSET TagsOf(image_history[name])
                           ELSE {{}}) :
              LET remove_success == IF has_handle THEN remove_ok ELSE ~call[t].exists
                  snapshot_cleaned == SnapshotCleaned(failing)
              IN  /\ containers' = IF has_handle /\ remove_ok
                                   THEN MapRemove(containers, name) ELSE containers
                  /\ container_images' = MapRemove(container_images, name)
                  /\ image_history' = IF drop_history THEN MapRemove(image_history, name)
                                      ELSE image_history
                  /\ images' = IF drop_history
                               THEN RemoveSnapshotImages(images, image_history[name], failing)
                               ELSE images
                  /\ last_version' = IF drop_history THEN MapRemove(last_version, name)
                                      ELSE last_version
                  /\ container_tunnels' = MapRemove(container_tunnels, name)
                  /\ call' = [call EXCEPT
                                ![t].ok = remove_success /\ snapshot_cleaned
                                          /\ image_record_cleaned,
                                ![t].img_failed = failing,
                                ![t].remove_success = remove_success,
                                ![t].image_record_cleaned = image_record_cleaned,
                                ![t].ports = EmptyMap]
                  /\ pc' = [pc EXCEPT ![t] = RemoveExit(t)]
    /\ UNCHANGED <<envVars, clock, allocVars, brokerVars>>

\* ---- the runtime on its own ------------------------------------------
\* Between two calls the container's process ends: its status is no longer
\* 'running' (the status start_container and remove_container read, lines
\* 504 and 599).
ContainerExits ==
    /\ pc[Caller] = "idle"
    /\ \E name \in DOMAIN containers :
          /\ containers[name] = "running"
          /\ containers' = [containers EXCEPT ![name] = "exited"]
    /\ UNCHANGED <<envVars, snapVars, allocVars, brokerVars, container_images, image_history,
                   container_tunnels, pc, call>>

\* Between two calls the container is removed at the runtime from outside
\* the program: from then on containers.get raises NotFound (lines 453,
\* 580, 604).
ContainerVanishes ==
    /\ pc[Caller] = "idle"
    /\ \E name \in DOMAIN containers :
          /\ containers[name] = "exited"
          /\ containers' = MapRemove(containers, name)
    /\ UNCHANGED <<envVars, snapVars, allocVars, brokerVars, container_images, image_history,
                   container_tunnels, pc, call>>

(***************************************************************************)
(* Snapshots: stop_and_commit, _cleanup_old_images, start_from_snapshot.   *)
(***************************************************************************)
\* time.strftime("%Y%m%d_%H%M%S") at the clock's reading.
Timestamp(c) == "20260101_00000" \o ToString(c)

\* Lines 810-837: the tag of the committed image, "<name>:v<version>_<time>".
SnapshotTag(name, version, timestamp) ==
    name \o ":v" \o ToString(version) \o "_" \o timestamp

\* Line 165: max(1, max_history_per_container).
MaxHistory == IF MaxHistoryPerContainer > 1 THEN MaxHistoryPerContainer ELSE 1

\* Pruning, with the mistake of keeping the oldest entries.
KeepRecent_Oldest(history, k) ==
    IF Len(history) > k THEN SubSeq(history, 1, k) ELSE history

\* history[-max_history:] (line 197), and history[:-max_history] (line 167).
KeepRecent(history, k) ==
    IF Len(history) > k THEN SubSeq(history, Len(history) - k + 1, Len(history))
    ELSE history
ToRemove(history, k) ==
    IF Len(history) > k THEN SubSeq(history, 1, Len(history) - k) ELSE <<>>

\* Lines 171-191: for every tag to remove, images.get and then
\* images.remove(force=True). An image the runtime does not hold is passed
\* over; failing: the tags on which the removal raises an error.
RECURSIVE CleanupImages(_, _, _)
CleanupImages(tags, imgs, failing) ==
    IF tags = <<>> THEN [images |-> imgs, requested |-> <<>>]
    ELSE LET tag == Head(tags)
             present == tag \in imgs
             imgs1 == IF present /\ tag \notin failing THEN imgs \ {tag} ELSE imgs
             rest == CleanupImages(Tail(tags), imgs1, failing)
         IN  [images |-> rest.images,
              requested |-> IF present THEN <<tag>> \o rest.requested
                            ELSE rest.requested]

\* tag.split(':')[-1]: what follows the last colon, the whole without one.
TagPart(tag) ==
    LET colons == {i \in 1 .. Len(tag) : SubSeq(tag, i, i) = ":"}
    IN  IF colons = {} THEN tag
        ELSE SubSeq(tag, (CHOOSE i \in colons : \A j \in colons : j <= i) + 1, Len(tag))

\* Line 888, with the mistake of matching the version tag at the end of the
\* tag only.
TagMatches_Suffix(tag, version_tag) ==
    \/ version_tag = tag
    \/ /\ Len(version_tag) <= Len(tag)
       /\ SubSeq(tag, Len(tag) - Len(version_tag) + 1, Len(tag)) = version_tag

\* Line 888: version_tag == tag or version_tag in tag.split(':')[-1].
TagMatches(tag, version_tag) ==
    version_tag = tag \/ Contains(TagPart(tag), version_tag)

\* The resolution, with the mistake of always taking the last entry.
ResolveSnapshot_Latest(available_versions, version_tag) ==
    IF available_versions = <<>> THEN NoText
    ELSE available_versions[Len(available_versions)]

\* Lines 881-898: the image start_from_snapshot uses: the last entry when no
\* version tag is given, else the most recent entry that matches; NoText
\* when nothing matches.
ResolveSnapshot(available_versions, version_tag) ==
    IF available_versions = <<>> THEN NoText
    ELSE IF version_tag = NoText THEN available_versions[Len(available_versions)]
    ELSE LET hits == {i \in 1 .. Len(available_versions) :
                         TagMatches(available_versions[i], version_tag)}
         IN  IF hits = {} THEN NoText
             ELSE available_versions[CHOOSE i \in hits : \A j \in hits : j <= i]

\* ---- stop_and_commit --------------------------------------------------
\* Lines 788-801: the container is looked up, then stop_container is called.
BeginStopAndCommit(t) ==
    /\ pc[t] = "idle" /\ phase = "ready"
    /\ clock < MaxSnapshots
    /\ \E name \in EnterNames(t), docker_ok \in BOOLEAN :
          LET f == [Frame("stop_and_commit") EXCEPT
                       !.name = name,
                       !.pre_bound = IF name \in DOMAIN container_tunnels
                                     THEN container_tunnels[name] ELSE EmptyMap,
                       !.pre_status = IF name \in DOMAIN containers
                                      THEN containers[name] ELSE "absent"]
          IN  IF docker_ok /\ name \in DOMAIN containers
              THEN /\ call' = [call EXCEPT ![t] = [f EXCEPT !.caller = "stop_and_commit",
                                                            !.exists = TRUE]]
                   /\ pc' = [pc EXCEPT ![t] = "sc_stop"]
              ELSE /\ call' = [call EXCEPT ![t] = f]
                   /\ pc' = [pc EXCEPT ![t] = "done"]
    /\ UNCHANGED <<envVars, snapVars, allocVars, brokerVars, coordVars>>

\* Lines 801-853: nothing more when stop_container returned false; else the
\* clock is read (a later time at every commit), the version is the length
\* of the history plus one, the container is committed and the new tag
\* recorded as current and appended.
SacCommit(t) ==
    /\ pc[t] = "sac_commit"
    /\ LET name == call[t].name
           version == Len(HistoryOf(name)) + 1
           tag == SnapshotTag(name, version, Timestamp(clock + 1))
       IN  IF ~call[t].ok
           THEN /\ pc' = [pc EXCEPT ![t] = "done"]
                /\ call' = call
                /\ UNCHANGED <<snapVars, container_images, image_history>>
           ELSE \E commit_ok \in BOOLEAN :
                   IF commit_ok
                   THEN /\ clock' = clock + 1
                        /\ images' = images \cup {tag}
                        /\ container_images' = MapPut(container_images, name, tag)
                        /\ image_history' = MapPut(image_history, name,
                                                   Append(HistoryOf(name), tag))
                        /\ last_version' = MapPut(last_version, name, version)
                        /\ call' = [call EXCEPT
                                      ![t].tag = tag, ![t].version = version,
                                      ![t].prev_version = IF name \in DOMAIN last_version
                                                          THEN last_version[name] ELSE 0,
                                      ![t].history = HistoryOf(name),
                                      ![t].commit = "ok"]
                        /\ pc' = [pc EXCEPT ![t] = "sac_remove"]
                   ELSE /\ UNCHANGED <<snapVars, container_images, image_history>>
                        /\ call' = [call EXCEPT ![t].ok = FALSE, ![t].commit = "failed"]
                        /\ pc' = [pc EXCEPT ![t] = "done"]
    /\ UNCHANGED <<envVars, allocVars, brokerVars, containers, container_tunnels>>

\* Lines 856-863: container.remove(), unforced: it fails on a container
\* that still runs; a failure is a warning.
SacRemove(t) ==
    /\ pc[t] = "sac_remove"
    /\ LET name == call[t].name
       IN  \E remove_ok \in (IF name \in DOMAIN containers /\ containers[name] = "running"
                            THEN {FALSE} ELSE BOOLEAN) :
              /\ containers' = IF remove_ok THEN MapRemove(containers, name) ELSE containers
              /\ call' = [call EXCEPT ![t].remove_success = remove_ok]
    /\ pc' = [pc EXCEPT ![t] = "sac_prune"]
    /\ UNCHANGED <<envVars, snapVars, allocVars, brokerVars, container_images,
                   image_history, container_tunnels>>

\* Lines 866-870 and _cleanup_old_images (159-198): the images of the
\* entries beyond the newest max_history are removed and the history is cut
\* to those; the new tag is returned.
SacPrune(t) ==
    /\ pc[t] = "sac_prune"
    /\ LET name == call[t].name
           history == HistoryOf(name)
           images_to_remove == ToRemove(history, MaxHistory)
       IN  \E failing \in SUBSET (TagsOf(images_to_remove) \cap images) :
              LET r == CleanupImages(images_to_remove, images, failing)
              IN  /\ images' = r.images
                  /\ image_history' = IF name \in DOMAIN image_history
                                      THEN MapPut(image_history, name,
                                                  KeepRecent(history, MaxHistory))
                                      ELSE image_history
                  /\ call' = [call EXCEPT ![t].pruned = images_to_remove,
                                          ![t].requested = r.requested,
                                          ![t].img_failed = failing,
                                          ![t].ok = TRUE]
    /\ pc' = [pc EXCEPT ![t] = "done"]
    /\ UNCHANGED <<envVars, clock, last_version, allocVars, brokerVars, containers,
                   container_images, container_tunnels>>

\* ---- start_from_snapshot ----------------------------------------------
\* The version_tag arguments tried: none, the tag of the first snapshot of
\* "demo", its part after the colon, its version prefix, and a version no
\* snapshot has.
FirstSnapshot == SnapshotTag("demo", 2, Timestamp(1))
VersionTagArgs == {NoText, FirstSnapshot, TagPart(FirstSnapshot), "v2", "v9"}

\* Lines 874-936: the image is resolved and looked up; a container of the
\* name is removed through remove_container; without one, a residual
\* binding is taken out.
BeginStartFromSnapshot(t) ==
    /\ pc[t] = "idle" /\ phase = "ready"
    /\ \E name \in EnterNames(t) :
       \E version_tag \in VersionTagArgs, image_ok \in BOOLEAN,
          docker_ok \in BOOLEAN :
          LET image == ResolveSnapshot(HistoryOf(name), version_tag)
              f == [Frame("start_from_snapshot") EXCEPT
                       !.name = name, !.version_tag = version_tag,
                       !.image = image, !.history = HistoryOf(name),
                       !.pre_bound = IF name \in DOMAIN container_tunnels
                                     THEN container_tunnels[name] ELSE EmptyMap,
                       !.pre_status = IF name \in DOMAIN containers
                                      THEN containers[name] ELSE "absent"]
          IN  /\ Len(HistoryOf(name)) <= MaxHistoryLen
              /\ IF image = NoText \/ ~image_ok \/ image \notin images
                 THEN /\ call' = [call EXCEPT ![t] = f]
                      /\ pc' = [pc EXCEPT ![t] = "done"]
                      /\ UNCHANGED container_tunnels
                 ELSE IF ~docker_ok
                 THEN /\ call' = [call EXCEPT ![t] = f]
                      /\ pc' = [pc EXCEPT ![t] = "sfs_create"]
                      /\ UNCHANGED container_tunnels
                 ELSE IF name \in DOMAIN containers
                 THEN /\ call' = [call EXCEPT ![t] =
                                    [f EXCEPT !.rm_caller = "start_from_snapshot"]]
                      /\ pc' = [pc EXCEPT ![t] = "rm_check"]
                      /\ UNCHANGED container_tunnels
                 ELSE /\ call' = [call EXCEPT ![t] =
                                    [f EXCEPT !.todo = InOrder(f.pre_bound, 1)]]
                      /\ container_tunnels' = MapRemove(container_tunnels, name)
                      /\ pc' = [pc EXCEPT ![t] = "sfs_del"]
    /\ UNCHANGED <<envVars, snapVars, allocVars, brokerVars, containers, container_images,
                   image_history>>

\* Lines 931-933: the residual tunnels that have an id are deleted.
SfsDeleteResidual(t) ==
    /\ pc[t] = "sfs_del"
    /\ call[t].todo # <<>>
    /\ RollbackStep(t)
    /\ UNCHANGED <<envVars, snapVars, lockVars, coordVars, pc>>

SfsResidualDone(t) ==
    /\ pc[t] = "sfs_del"
    /\ call[t].todo = <<>>
    /\ pc' = [pc EXCEPT ![t] = "sfs_create"]
    /\ UNCHANGED <<envVars, snapVars, allocVars, brokerVars, coordVars, call>>

\* Lines 919-922: remove_container returned; false ends the call.
SfsRemoved(t) ==
    /\ pc[t] = "sfs_removed"
    /\ pc' = [pc EXCEPT ![t] = IF call[t].ok THEN "sfs_create" ELSE "done"]
    /\ call' = [call EXCEPT ![t].ok = FALSE]
    /\ UNCHANGED <<envVars, snapVars, allocVars, brokerVars, coordVars>>

\* Line 942 and lines 203-214: create_container(image, name) is called, the
\* locals of the calls that have returned being gone; it looks for a
\* container of the name before it creates one.
SfsCreate(t) ==
    /\ pc[t] = "sfs_create"
    /\ LET name == call[t].name
           f == [Frame("start_from_snapshot") EXCEPT
                       !.name = name, !.version_tag = call[t].version_tag,
                       !.image = call[t].image, !.history = call[t].history,
                       !.pre_bound = call[t].pre_bound,
                       !.pre_status = call[t].pre_status]
       IN  \E docker_ok \in BOOLEAN :
              IF ~docker_ok
              THEN /\ call' = [call EXCEPT ![t] = f]
                   /\ pc' = [pc EXCEPT ![t] = "done"]
              ELSE IF name \in DOMAIN containers
              THEN /\ call' = [call EXCEPT ![t] =
                                 [f EXCEPT !.ports = GetContainerPorts(name),
                                           !.ok = (GetContainerPorts(name) # EmptyMap),
                                           !.runtime = "exists"]]
                   /\ pc' = [pc EXCEPT ![t] = "done"]
              ELSE /\ call' = [call EXCEPT ![t] = f]
                   /\ pc' = [pc EXCEPT ![t] = "cc_run"]
    /\ UNCHANGED <<envVars, snapVars, allocVars, brokerVars, coordVars>>

(***************************************************************************)
(* Initial states and specifications.                                      *)
(***************************************************************************)
\* Tunnels the broker may hold for the default client before this program
\* first connects: none, one on a reserved port outside the range, or one
\* on a port of the range.
ForeignPorts == {SshInternalPort, PortStart}
ForeignTunnel(port) == NpsTunnel(port, "10.0.0.5:3306", "db admin", DefaultClientId)

InitCommon ==
    /\ disk_faulty = FALSE
    /\ port_range_end = PortEnd
    /\ broker_ids = NumIds
    /\ allocated_ports = EmptyMap
    /\ port_file = EmptyMap
    /\ port_lock = NoThread
    /\ tunnel_mappings = EmptyMap
    /\ containers = EmptyMap
    /\ container_images = EmptyMap
    /\ image_history = EmptyMap
    /\ container_tunnels = EmptyMap
    /\ images = {BaseImage}
    /\ clock = 0
    /\ last_version = EmptyMap
    /\ pc = [t \in Threads |-> "idle"]
    /\ call = [t \in Threads |-> IdleCall]
    /\ grant_count = [p \in Ports |-> 0]

InitAlloc ==
    /\ InitCommon
    /\ strategy \in Strategies
    /\ broker_flaky = TRUE
    /\ nps_tunnels = EmptyMap
    /\ phase = "ready"

NextAlloc ==
    \E t \in Threads :
        \/ BeginAllocatePort(t)
        \/ AllocAcquire(t)
        \/ AllocPick(t)
        \/ AllocMark(t)
        \/ BeginReleasePort(t)
        \/ ReleaseAcquire(t)
        \/ ReleaseBody(t)
        \/ Finish(t)

SpecAlloc == InitAlloc /\ [][NextAlloc]_vars

\* Before the orchestrator's constructor has read the broker's list.  The
\* orchestrator and the coordinator are run with the sequential strategy:
\* the port allocate_port picks is then a function of the table and of the
\* preferred port.
Init ==
    /\ InitCommon
    /\ strategy = "sequential"
    /\ broker_flaky = TRUE
    /\ nps_tunnels \in {EmptyMap} \cup {[i \in {1} |-> ForeignTunnel(p)] : p \in ForeignPorts}
    /\ phase = "boot"

\* The orchestrator called directly, one call at a time.
NextTunnel ==
    \/ LoadTunnelMappings
    \/ TopCreateTunnel(Caller)
    \/ TopDeleteTunnel(Caller)
    \/ TopUpdateTunnel(Caller)
    \/ TopGetTunnelInfo(Caller)
    \/ Finish(Caller)

SpecTunnel == Init /\ [][NextTunnel]_vars

\* The coordinator called one call at a time, over the orchestrator.
Next ==
    \/ LoadTunnelMappings
    \/ BeginCreateContainer(Caller)
    \/ CreateRun(Caller)
    \/ CreateGetIp(Caller)
    \/ CreateTunnels(Caller)
    \/ CreateRollbackTunnels(Caller)
    \/ CreateRollbackContainer(Caller)
    \/ CreateCommit(Caller)
    \/ BeginStartContainer(Caller)
    \/ StartGetIp(Caller)
    \/ StartTunnels(Caller)
    \/ StartRollbackTunnels(Caller)
    \/ StartRollbackContainer(Caller)
    \/ StartCommit(Caller)
    \/ BeginStopContainer(Caller)
    \/ StopRuntime(Caller)
    \/ StopDeleteTunnel(Caller)
    \/ StopReturn(Caller)
    \/ StopExit(Caller)
    \/ BeginRemoveContainer(Caller)
    \/ RemoveCheck(Caller)
    \/ RemoveDeleteResidual(Caller)
    \/ RemoveResidualDone(Caller)
    \/ RemoveFinish(Caller)
    \/ ContainerExits
    \/ ContainerVanishes
    \/ Finish(Caller)

Spec == Init /\ [][Next]_vars

\* The coordinator's snapshot calls, one call at a time, after a start
\* that found the broker empty; the broker's list and delete calls succeed.
InitSnapshot ==
    /\ InitCommon
    /\ strategy = "sequential"
    /\ broker_flaky = FALSE
    /\ nps_tunnels = EmptyMap
    /\ phase = "ready"

NextSnapshot ==
    \/ BeginCreateContainer(Caller)
    \/ CreateRun(Caller)
    \/ CreateGetIp(Caller)
    \/ CreateTunnels(Caller)
    \/ CreateRollbackTunnels(Caller)
    \/ CreateRollbackContainer(Caller)
    \/ CreateCommit(Caller)
    \/ BeginStopAndCommit(Caller)
    \/ StopRuntime(Caller)
    \/ StopDeleteTunnel(Caller)
    \/ StopReturn(Caller)
    \/ StopExit(Caller)
    \/ SacCommit(Caller)
    \/ SacRemove(Caller)
    \/ SacPrune(Caller)
    \/ BeginStartFromSnapshot(Caller)
    \/ SfsDeleteResidual(Caller)
    \/ SfsResidualDone(Caller)
    \/ SfsRemoved(Caller)
    \/ SfsCreate(Caller)
    \/ RemoveCheck(Caller)
    \/ RemoveFinish(Caller)
    \/ Finish(Caller)
    \/ ContainerExits
    \/ ContainerVanishes

SpecSnapshot == InitSnapshot /\ [][NextSnapshot]_vars


\* The reconciliation alone, over what a previous run may have left: an
\* allocation file holding records for ports of the range, and a broker
\* holding up to two tunnels, of the default client or of another, on a
\* reserved port or on ports of the range.
PersistedPorts == {PortStart, PortStart + 2}
PersistedTables ==
    UNION {[S -> {PortRecord(s, DefaultClientId) : s \in {"ssh", "unknown"}}] :
             S \in SUBSET PersistedPorts}
OtherClientId == 1
BootTunnels ==
    {NpsTunnel(p, d.target, d.remark, c) :
        p \in {SshInternalPort} \cup PersistedPorts,
        d \in {[target |-> "10.0.0.5:3306", remark |-> "db admin"],
               [target |-> "172.17.0.2:22", remark |-> "ssh_demo"]},
        c \in {DefaultClientId, OtherClientId}}
BootBrokers ==
    {EmptyMap} \cup {[i \in {1} |-> x] : x \in BootTunnels}
    \cup {b \in {[i \in {1, 2} |-> IF i = 1 THEN xy[1] ELSE xy[2]] :
                    xy \in BootTunnels \X BootTunnels} : b[1].Port # b[2].Port}

InitBoot ==
    /\ disk_faulty = FALSE
    /\ port_range_end = PortEnd
    /\ broker_ids = NumIds
    /\ port_file \in PersistedTables
    /\ allocated_ports = port_file
    /\ port_lock = NoThread
    /\ tunnel_mappings = EmptyMap
    /\ containers = EmptyMap
    /\ container_images = EmptyMap
    /\ image_history = EmptyMap
    /\ container_tunnels = EmptyMap
    /\ images = {BaseImage}
    /\ clock = 0
    /\ last_version = EmptyMap
    /\ pc = [t \in Threads |-> "idle"]
    /\ call = [t \in Threads |-> IdleCall]
    /\ grant_count = [p \in Ports |-> 0]
    /\ strategy = "sequential"
    /\ broker_flaky = TRUE
    /\ nps_tunnels \in BootBrokers
    /\ phase = "boot"

NextBoot == LoadTunnelMappings

SpecBoot == InitBoot /\ [][NextBoot]_vars


\* One thread calling the orchestrator's update_tunnel and get_tunnel_info
\* while the other threads call the allocator, every call split at its
\* reads and writes of the allocation table.
AllocatorThreads == Threads \ {Caller}

NextRace ==
    \/ LoadTunnelMappings
    \/ BeginUpdateTunnel(Caller)
    \/ UpdateCheck(Caller)
    \/ UpdateMark(Caller)
    \/ BeginGetTunnelInfo(Caller)
    \/ GetInfoFetch(Caller)
    \/ GetInfoCheck(Caller)
    \/ GetInfoMark(Caller)
    \/ \E t \in AllocatorThreads :
          \/ BeginAllocatePort(t)
          \/ AllocAcquire(t)
          \/ AllocPick(t)
          \/ AllocMark(t)
          \/ BeginReleasePort(t)
          \/ ReleaseAcquire(t)
          \/ ReleaseBody(t)
    \/ \E t \in Threads : Finish(t)

SpecRace == Init /\ [][NextRace]_vars


\* The allocator alone with one caller, over a disk whose writes may fail,
\* and restarted from its allocation file between calls.
InitPersist ==
    /\ disk_faulty \in BOOLEAN
    /\ port_range_end = PortEnd
    /\ broker_ids = NumIds
    /\ allocated_ports = EmptyMap
    /\ port_file = EmptyMap
    /\ port_lock = NoThread
    /\ tunnel_mappings = EmptyMap
    /\ containers = EmptyMap
    /\ container_images = EmptyMap
    /\ image_history = EmptyMap
    /\ container_tunnels = EmptyMap
    /\ images = {BaseImage}
    /\ clock = 0
    /\ last_version = EmptyMap
    /\ pc = [t \in Threads |-> "idle"]
    /\ call = [t \in Threads |-> IdleCall]
    /\ grant_count = [p \in Ports |-> 0]
    /\ strategy \in {"sequential", "random"}
    /\ broker_flaky = TRUE
    /\ nps_tunnels = EmptyMap
    /\ phase = "ready"

NextPersist ==
    \/ BeginAllocatePort(Caller)
    \/ AllocAcquire(Caller)
    \/ AllocPick(Caller)
    \/ AllocMark(Caller)
    \/ BeginReleasePort(Caller)
    \/ ReleaseAcquire(Caller)
    \/ ReleaseBody(Caller)
    \/ BeginReleaseBulk(Caller)
    \/ BulkAcquire(Caller)
    \/ BulkBody(Caller)
    \/ Finish(Caller)
    \/ Restart

SpecPersist == InitPersist /\ [][NextPersist]_vars


\* The broker client called one request at a time.  An HTTP attempt always
\* ends (requests is given a timeout, line 172), so the caller's loop is
\* never stuck in a round.
NextRequest ==
    \/ BeginRequest(Caller)
    \/ SendAttempt(Caller)
    \/ Finish(Caller)

SpecRequest == InitAlloc /\ [][NextRequest]_vars /\ WF_vars(SendAttempt(Caller))


(***************************************************************************)
(* C1: whatever the interleaving of allocate_port and release_port calls,  *)
(* no port is granted by allocate_port twice without a release of that     *)
(* port between the two grants.                                            *)
(***************************************************************************)
C1_NoDoubleGrant == \A p \in Ports : grant_count[p] <= 1

\* Two allocate_port calls in flight at once, one of them already granted a port.
C1_Witness ==
    \E t1, t2 \in Threads :
        /\ t1 # t2
        /\ pc[t1] = "done" /\ call[t1].op = "allocate_port" /\ call[t1].ok
        /\ pc[t2] = "ap_lock" /\ call[t2].preferred = call[t1].port

(***************************************************************************)
(* The claims on create_container.                                         *)
(***************************************************************************)
\* create_container has returned after at least one service tunnel failed.
CreateFailedReturn ==
    /\ pc[Caller] = "done"
    /\ call[Caller].op = "create_container"
    /\ call[Caller].failed # {}

\* The tunnels and ports are as they were when the call began.
TunnelStoresRestored ==
    /\ nps_tunnels = call[Caller].pre.broker
    /\ tunnel_mappings = call[Caller].pre.cache
    /\ allocated_ports = call[Caller].pre.alloc

\* C2: when a service tunnel failed in create_container and every deletion
\* and runtime call of the rollback succeeded, the call has reported failure,
\* the broker's tunnels, the tunnel cache and the allocation table are what
\* they were before the call, the container is gone from the runtime and no
\* binding is stored for the name.
C2_RollbackRestoresEverything ==
    (CreateFailedReturn /\ ~call[Caller].undone) =>
        /\ ~call[Caller].ok
        /\ TunnelStoresRestored
        /\ call[Caller].name \notin DOMAIN containers
        /\ call[Caller].name \notin DOMAIN container_tunnels

CreateTunnelReturn == pc[Caller] = "done" /\ call[Caller].op = "create_tunnel"

\* C4: create_tunnel that got no port has made no broker call and reports
\* failure; create_tunnel whose add_tunnel the broker refused reports failure
\* and leaves the allocation table and the tunnel cache as they were before
\* the call.
C4_FailedCreateLeavesNothing ==
    CreateTunnelReturn =>
        /\ call[Caller].port = NoPort =>
               call[Caller].nps_calls = 0 /\ ~call[Caller].ok
        /\ (call[Caller].port # NoPort /\ call[Caller].nps_calls = 1) =>
               /\ ~call[Caller].ok
               /\ allocated_ports = call[Caller].pre.alloc
               /\ tunnel_mappings = call[Caller].pre.cache

\* The broker refused a tunnel while other ports were allocated.
C4_Witness ==
    /\ CreateTunnelReturn
    /\ call[Caller].port # NoPort /\ call[Caller].nps_calls = 1
    /\ call[Caller].pre.alloc # EmptyMap

\* C5: every port of the allocation table is in the configured range and
\* is not reserved.
C5_TablePortsInRangeUnreserved ==
    \A p \in DOMAIN allocated_ports :
        PortStart <= p /\ p <= PortEnd /\ p \notin ReservedPorts

\* C6: once the orchestrator is constructed, between its operations the port
\* of every record of the tunnel cache is allocated in the port allocator.
C6_CachedPortsAllocated ==
    phase = "ready" =>
        \A i \in DOMAIN tunnel_mappings :
            tunnel_mappings[i].port \in DOMAIN allocated_ports

\* delete_tunnel succeeded on a cached tunnel while another stays cached.
C6_Witness ==
    /\ pc[Caller] = "done" /\ call[Caller].op = "delete_tunnel" /\ call[Caller].ok
    /\ call[Caller].tunnel_id \in DOMAIN call[Caller].pre.cache
    /\ tunnel_mappings # EmptyMap

(***************************************************************************)
(* The claims on stop_container and remove_container.                      *)
(***************************************************************************)
\* stop_container is at its return statement.
StopReturning == pc[Caller] = "sc_done"

\* The tunnel of a binding entry is gone from the broker and its port free.
TunnelGone(info) ==
    /\ BrokerPortFree(nps_tunnels, info.port)
    /\ info.port \notin DOMAIN allocated_ports

\* C7: stop_container returns true only if the runtime stop did not fail
\* (stopped, or not found) and every tunnel that was bound to the name is
\* gone from the broker with its port free.
C7_TrueOnlyIfStoppedAndCleaned ==
    (StopReturning /\ call[Caller].ok) =>
        /\ call[Caller].runtime \in {"ok", "not_found"}
        /\ \A s \in DOMAIN call[Caller].bound : TunnelGone(call[Caller].bound[s])

\* C8: stop_container has, when it returns, attempted the deletion of every
\* tunnel that was bound to the name.
C8_EveryBoundTunnelAttempted ==
    StopReturning =>
        \A s \in DOMAIN call[Caller].bound :
            call[Caller].bound[s].tunnel_id \in call[Caller].del_attempted

\* C9: stop_container on a name the runtime does not know returns true when
\* no deletion of a bound tunnel failed.
C9_NotFoundReportsSuccess ==
    (StopReturning /\ call[Caller].runtime = "not_found"
                   /\ call[Caller].del_failed = {}) =>
        call[Caller].ok

\* C10: when remove_container returns, the runtime having answered its
\* status check, the broker ids of the tunnels bound to the name being known
\* and no tunnel deletion having failed, no binding is stored for the name
\* and every tunnel that was bound to it is gone from the broker with its
\* port free.
C10_RemoveLeavesNoTunnel ==
    (/\ pc[Caller] = "done" /\ call[Caller].op = "remove_container"
     /\ call[Caller].exists => call[Caller].container
     /\ \A s \in DOMAIN call[Caller].pre_bound :
            call[Caller].pre_bound[s].tunnel_id # NoId
     /\ call[Caller].del_failed = {}) =>
        /\ call[Caller].name \notin DOMAIN container_tunnels
        /\ \A s \in DOMAIN call[Caller].pre_bound :
               TunnelGone(call[Caller].pre_bound[s])


\* Two callers on the one name: thread 1 starts the container, call after
\* call, while thread 2 makes one remove_container call, each call split at
\* its runtime, orchestrator and state-file steps.  The container has been
\* created and is stopped, as create_container followed by stop_container
\* leaves it; the broker's list and delete calls succeed.
Remover == 2

InitLifecycle ==
    /\ disk_faulty = FALSE
    /\ port_range_end = PortEnd
    /\ broker_ids = NumIds
    /\ allocated_ports = EmptyMap
    /\ port_file = EmptyMap
    /\ port_lock = NoThread
    /\ tunnel_mappings = EmptyMap
    /\ containers = [n \in Names |-> "exited"]
    /\ container_images = [n \in Names |-> BaseImage]
    /\ image_history = [n \in Names |-> <<BaseImage>>]
    /\ container_tunnels = EmptyMap
    /\ images = {BaseImage}
    /\ clock = 0
    /\ last_version = EmptyMap
    /\ pc = [t \in Threads |-> "idle"]
    /\ call = [t \in Threads |-> IdleCall]
    /\ grant_count = [p \in Ports |-> 0]
    /\ strategy = "sequential"
    /\ broker_flaky = FALSE
    /\ nps_tunnels = EmptyMap
    /\ phase = "ready"

NextLifecycle ==
    \/ BeginStartContainer(Caller)
    \/ StartGetIp(Caller)
    \/ StartTunnels(Caller)
    \/ StartRollbackTunnels(Caller)
    \/ StartRollbackContainer(Caller)
    \/ StartCommit(Caller)
    \/ Finish(Caller)
    \/ BeginRemoveContainer(Remover)
    \/ RemoveCheck(Remover)
    \/ StopRuntime(Remover)
    \/ StopDeleteTunnel(Remover)
    \/ StopReturn(Remover)
    \/ StopExit(Remover)
    \/ RemoveFinish(Remover)

SpecLifecycle == InitLifecycle /\ [][NextLifecycle]_vars


\* The coordinator with one caller over a port range and a broker that
\* have room for two sets of service tunnels: the container is created,
\* its process may end on its own, and it is started again.  The broker's
\* list and delete calls succeed.
WideRangeEnd == PortStart + 2 * Len(ServiceOrder)
WideBrokerIds == 2 * Len(ServiceOrder)

InitRestart ==
    /\ disk_faulty = FALSE
    /\ port_range_end = WideRangeEnd
    /\ broker_ids = WideBrokerIds
    /\ allocated_ports = EmptyMap
    /\ port_file = EmptyMap
    /\ port_lock = NoThread
    /\ tunnel_mappings = EmptyMap
    /\ containers = EmptyMap
    /\ container_images = EmptyMap
    /\ image_history = EmptyMap
    /\ container_tunnels = EmptyMap
    /\ images = {BaseImage}
    /\ clock = 0
    /\ last_version = EmptyMap
    /\ pc = [t \in Threads |-> "idle"]
    /\ call = [t \in Threads |-> IdleCall]
    /\ grant_count = [p \in Ports |-> 0]
    /\ strategy = "sequential"
    /\ broker_flaky = FALSE
    /\ nps_tunnels = EmptyMap
    /\ phase = "ready"

NextRestart ==
    \/ BeginCreateContainer(Caller)
    \/ CreateRun(Caller)
    \/ CreateGetIp(Caller)
    \/ CreateTunnels(Caller)
    \/ CreateRollbackTunnels(Caller)
    \/ CreateRollbackContainer(Caller)
    \/ CreateCommit(Caller)
    \/ BeginStartContainer(Caller)
    \/ StartGetIp(Caller)
    \/ StartTunnels(Caller)
    \/ StartRollbackTunnels(Caller)
    \/ StartRollbackContainer(Caller)
    \/ StartCommit(Caller)
    \/ ContainerExits
    \/ Finish(Caller)

SpecRestart == InitRestart /\ [][NextRestart]_vars
(***************************************************************************)
(* The claims on removal, snapshots and container start.                   *)
(***************************************************************************)
\* remove_container is at its return statement, back at its caller.
RemoveReturn ==
    /\ pc[Caller] = "done" /\ call[Caller].op = "remove_container"

\* C11: remove_container(name, remove_snapshots = false) returns true for
\* every name whose container is absent from the runtime (the runtime
\* having answered "not found"), so a second removal of a name reports
\* success like the first.
C11_AbsentRemoveReportsSuccess ==
    (/\ RemoveReturn /\ ~call[Caller].remove_snapshots
     /\ call[Caller].pre_status = "absent" /\ ~call[Caller].exists) =>
        call[Caller].ok

\* C12: remove_container(name, remove_snapshots = true) leaves no history
\* record for the name when it returns, whether or not the deletion of a
\* snapshot image failed, and it reports failure whenever such a deletion
\* failed.
C12_HistoryDroppedFailureReported ==
    (RemoveReturn /\ call[Caller].remove_snapshots) =>
        /\ call[Caller].name \notin DOMAIN image_history
        /\ call[Caller].img_failed # {} => ~call[Caller].ok

\* A removal with snapshots in which the container was removed, the image
\* record dropped, and the deletion of a snapshot image failed.
C12_Witness ==
    /\ RemoveReturn /\ call[Caller].remove_snapshots
    /\ call[Caller].remove_success /\ call[Caller].image_record_cleaned
    /\ call[Caller].pre_status = "running"
    /\ call[Caller].img_failed # {}
    /\ call[Caller].name \notin DOMAIN image_history

\* C12 as the specification states it: a failed deletion of a snapshot image
\* does not make remove_container(name, remove_snapshots = true) report
\* failure: with the container removed and the image record dropped, the
\* call returns true.
C12_ImageFailureNotReported ==
    (/\ RemoveReturn /\ call[Caller].remove_snapshots
     /\ call[Caller].remove_success /\ call[Caller].image_record_cleaned) =>
        /\ call[Caller].name \notin DOMAIN image_history
        /\ call[Caller].ok

\* start_container has returned after a service tunnel failed in it.
StartFailedReturn ==
    /\ pc[Caller] = "done" /\ call[Caller].op = "start_container"
    /\ call[Caller].failed # {}

\* C18: when a service tunnel failed in start_container on a stopped
\* container that had no binding, and every deletion and the runtime stop
\* of the rollback succeeded, the call has reported failure, every tunnel
\* created in the call is gone from the broker with its port free, the
\* container is at the runtime and stopped, and no binding is stored for
\* the name.
C18_StartRollbackUndoesTunnels ==
    (/\ StartFailedReturn /\ call[Caller].pre_bound = EmptyMap
     /\ ~call[Caller].undone) =>
        /\ ~call[Caller].ok
        /\ \A s \in DOMAIN call[Caller].created : TunnelGone(call[Caller].created[s])
        /\ call[Caller].name \in DOMAIN containers
        /\ containers[call[Caller].name] = "exited"
        /\ call[Caller].name \notin DOMAIN container_tunnels

\* create_container has returned success for a name that had no container.
CreateNewReturn ==
    /\ pc[Caller] = "done" /\ call[Caller].op = "create_container"
    /\ call[Caller].ok /\ call[Caller].runtime # "exists"

\* C19: when create_container succeeds for a new name, the binding stored
\* for the name maps exactly ssh, jupyter and app to the tunnels created in
\* this call, on ports that were not allocated before it; the returned dict
\* gives each service's port under the key "<service>_port"; each of those
\* ports is allocated and listened on at the broker; and the image used is
\* the last entry of the name's history and its current image.
C19_CreateSuccessBindsAllServices ==
    CreateNewReturn =>
        LET name == call[Caller].name
        IN  /\ name \in DOMAIN container_tunnels
            /\ container_tunnels[name] = call[Caller].created
            /\ DOMAIN container_tunnels[name] = Services
            /\ DOMAIN call[Caller].ports = {"ssh_port", "jupyter_port", "app_port"}
            /\ \A s \in Services :
                   LET port == container_tunnels[name][s].port
                   IN  /\ call[Caller].ports[s \o "_port"] = port
                       /\ port \in DOMAIN allocated_ports
                       /\ port \notin DOMAIN call[Caller].pre.alloc
                       /\ ~BrokerPortFree(nps_tunnels, port)
                       /\ BrokerPortFree(call[Caller].pre.broker, port)
            /\ name \in DOMAIN container_images
            /\ container_images[name] = call[Caller].image
            /\ HistoryOf(name) # <<>>
            /\ HistoryOf(name)[Len(HistoryOf(name))] = call[Caller].image

\* create_container succeeded for a new name with three tunnels on three
\* different ports.
C19_Witness ==
    /\ CreateNewReturn
    /\ call[Caller].attempted = Services
    /\ Cardinality({call[Caller].ports[k] : k \in DOMAIN call[Caller].ports}) = 3
    /\ containers[call[Caller].name] = "running"

\* The step in which create_container finds a container of the name at the
\* runtime and returns.
CreateExistingStep ==
    /\ pc[Caller] = "idle" /\ pc'[Caller] = "done"
    /\ call'[Caller].op = "create_container"
    /\ call'[Caller].runtime = "exists"

\* C20 (as amended): create_container for a name that has a container at
\* the runtime creates no container, allocates no port, creates no tunnel
\* and changes no stored state; it returns the ports of the binding stored
\* for the name, under their port keys, and returns None exactly when no
\* binding is stored for the name.
C20_ExistingNameChangesNothing ==
    [][CreateExistingStep =>
          LET name == call'[Caller].name
              bound == name \in DOMAIN container_tunnels
          IN  /\ UNCHANGED <<allocVars, brokerVars, coordVars, snapVars>>
              /\ call'[Caller].ok = bound
              /\ bound =>
                    /\ DOMAIN call'[Caller].ports =
                          {PortKey(s) : s \in DOMAIN container_tunnels[name]}
                    /\ \A s \in DOMAIN container_tunnels[name] :
                          call'[Caller].ports[PortKey(s)] = container_tunnels[name][s].port
              /\ ~bound => call'[Caller].ports = EmptyMap]_vars

\* create_container for an existing name has returned the three bound ports.
C20_Witness ==
    /\ pc[Caller] = "done" /\ call[Caller].op = "create_container"
    /\ call[Caller].runtime = "exists" /\ call[Caller].ok
    /\ call[Caller].name \in DOMAIN container_tunnels
    /\ DOMAIN call[Caller].ports = {"ssh_port", "jupyter_port", "app_port"}

\* C20 as the specification states it: create_container for a name that
\* has a container at the runtime returns ports, never the None of an error.
C20_ExistingNameReturnsPorts ==
    (/\ pc[Caller] = "done" /\ call[Caller].op = "create_container"
     /\ call[Caller].runtime = "exists") =>
        call[Caller].ok

\* stop_and_commit has returned on a container the runtime had, the runtime
\* stop having succeeded and no deletion of a bound tunnel having failed.
SacReturn ==
    /\ pc[Caller] = "done" /\ call[Caller].op = "stop_and_commit"
    /\ call[Caller].exists /\ call[Caller].runtime = "ok"
    /\ call[Caller].del_failed = {}

Occurrences(q, x) == Cardinality({i \in 1 .. Len(q) : q[i] = x})

MostRecent(history, Match(_)) ==
    LET hits == {i \in 1 .. Len(history) : Match(history[i])}
    IN  IF hits = {} THEN NoText
        ELSE history[CHOOSE i \in hits : \A j \in hits : j <= i]

\* s ends with m.
EndsWith(s, m) ==
    Len(m) <= Len(s) /\ SubSeq(s, Len(s) - Len(m) + 1, Len(s)) = m

\* The step in which start_from_snapshot resolves its image.
SfsResolveStep ==
    /\ pc[Caller] = "idle"
    /\ call'[Caller].op = "start_from_snapshot"

SfsCreatedReturn ==
    /\ pc[Caller] = "done" /\ call[Caller].op = "start_from_snapshot"
    /\ call[Caller].ok /\ call[Caller].runtime # "exists"

DeleteCachedReturn ==
    /\ pc[Caller] = "done" /\ call[Caller].op = "delete_tunnel"
    /\ call[Caller].tunnel_id \in DOMAIN call[Caller].pre.cache

\* C21: delete_tunnel on a cached id returns true exactly when the broker
\* confirmed the deletion; after a true return the tunnel's port is not in
\* the allocation table and its record is not in the cache, and after a
\* false return the cache and the allocation table are what they were
\* before the call.
C21_DeleteCachedAllOrNothing ==
    DeleteCachedReturn =>
        LET tunnel_id == call[Caller].tunnel_id
            port == call[Caller].pre.cache[tunnel_id].port
        IN  /\ call[Caller].ok = call[Caller].result
            /\ call[Caller].ok =>
                   /\ port \notin DOMAIN allocated_ports
                   /\ tunnel_id \notin DOMAIN tunnel_mappings
            /\ ~call[Caller].ok =>
                   /\ tunnel_mappings = call[Caller].pre.cache
                   /\ allocated_ports = call[Caller].pre.alloc

\* The broker refused the deletion of a cached tunnel whose port is allocated.
C21_Witness ==
    /\ DeleteCachedReturn /\ ~call[Caller].result
    /\ call[Caller].pre.cache[call[Caller].tunnel_id].port \in DOMAIN call[Caller].pre.alloc

\* delete_tunnel has returned, called with an id the cache did not hold
\* while the broker held a tunnel of that id.
DeleteUncachedReturn ==
    /\ pc[Caller] = "done" /\ call[Caller].op = "delete_tunnel"
    /\ call[Caller].tunnel_id \notin DOMAIN call[Caller].pre.cache
    /\ call[Caller].tunnel_id \in DOMAIN call[Caller].pre.broker

\* C22: delete_tunnel on an id that is not in the cache has sent one delete
\* request for the id to the broker and reports failure.
C22_UncachedDeleteReportsFailure ==
    DeleteUncachedReturn =>
        call[Caller].nps_calls = 1 /\ ~call[Caller].ok

(***************************************************************************)
(* The claims on update_tunnel.                                            *)
(***************************************************************************)
\* update_tunnel has returned, called with an id the cache held.
UpdateCachedReturn ==
    /\ pc[Caller] = "done" /\ call[Caller].op = "update_tunnel"
    /\ call[Caller].tunnel_id \in DOMAIN call[Caller].pre.cache

\* The port the cache recorded for the tunnel when the call began.
OldPort == call[Caller].pre.cache[call[Caller].tunnel_id].port

\* The call asked for a port other than the tunnel's, free when it began.
UpdateToFreePort ==
    /\ UpdateCachedReturn
    /\ call[Caller].port # NoPort /\ call[Caller].port # OldPort
    /\ IsPortAvailable(call[Caller].pre.alloc, call[Caller].port)

\* C23: update_tunnel(id, port=p) on a cached tunnel, p free and not the
\* tunnel's port, the broker accepting the update, has returned true, the
\* cached record's port is p, p is in the allocation table and the old port
\* is not.
C23_PortChangeSucceeds ==
    (UpdateToFreePort /\ call[Caller].result) =>
        /\ call[Caller].ok
        /\ tunnel_mappings[call[Caller].tunnel_id].port = call[Caller].port
        /\ call[Caller].port \in DOMAIN allocated_ports
        /\ OldPort \notin DOMAIN allocated_ports

\* C24: whenever update_tunnel on a cached tunnel returns false, the cached
\* record still carries the port it had before the call and that port is
\* still in the allocation table.
C24_FailedUpdateKeepsOldPort ==
    (UpdateCachedReturn /\ ~call[Caller].ok) =>
        /\ call[Caller].tunnel_id \in DOMAIN tunnel_mappings
        /\ tunnel_mappings[call[Caller].tunnel_id].port = OldPort
        /\ OldPort \in DOMAIN allocated_ports

\* A port change to a free port has returned false.
C24_Witness == UpdateToFreePort /\ ~call[Caller].ok

(***************************************************************************)
(* The claim on the startup reconciliation.                                *)
(***************************************************************************)
\* _load_tunnel_mappings has run and its list call was answered.
ReconcileReturn ==
    /\ phase = "ready"
    /\ call[Caller].op = "_load_tunnel_mappings" /\ call[Caller].result

\* The tunnels the broker lists for the default client.
ListedIds(broker) == {i \in DOMAIN broker : broker[i].Client = DefaultClientId}

\* C25: after a reconciliation whose list call was answered, the cache
\* holds exactly one record per tunnel listed for the default client, under
\* the tunnel's broker id and with its port, target and remark; the port of
\* every listed tunnel is in the allocation table; and every record the
\* table held before is in it unchanged.
C25_ReconcileCachesAndMarks ==
    ReconcileReturn =>
        LET pre == call[Caller].pre
        IN  /\ DOMAIN tunnel_mappings = ListedIds(pre.broker)
            /\ \A i \in ListedIds(pre.broker) :
                  /\ tunnel_mappings[i].port = pre.broker[i].Port
                  /\ tunnel_mappings[i].target = pre.broker[i].Target
                  /\ tunnel_mappings[i].remark = pre.broker[i].Remark
                  /\ pre.broker[i].Port \in DOMAIN allocated_ports
            /\ \A p \in DOMAIN pre.alloc :
                  p \in DOMAIN allocated_ports /\ allocated_ports[p] = pre.alloc[p]

\* Two tunnels were listed: one on a port the table already held under
\* another service name, one on a port the table did not hold.
C25_Witness ==
    /\ ReconcileReturn
    /\ \E i, j \in ListedIds(call[Caller].pre.broker) :
          LET pre == call[Caller].pre
          IN  /\ pre.broker[i].Port \in DOMAIN pre.alloc
              /\ pre.alloc[pre.broker[i].Port].service # tunnel_mappings[i].service
              /\ pre.broker[j].Port \notin DOMAIN pre.alloc

(***************************************************************************)
(* The claim on create_tunnel's polls for the new tunnel's id.             *)
(***************************************************************************)
\* create_tunnel has returned; the broker accepted the tunnel and no list
\* poll showed a tunnel on its port.
CreateUnresolvedReturn ==
    /\ CreateTunnelReturn
    /\ call[Caller].port # NoPort /\ call[Caller].result /\ call[Caller].poll = 0

\* C26: create_tunnel never makes more than PollAttempts list polls after
\* its add_tunnel; when the broker accepted the tunnel and no poll showed
\* it, the call has returned a record of the allocated port with no tunnel
\* id, the port is in the allocation table and the cache is what it was
\* before the call.
C26_UnresolvedIdKeepsPort ==
    /\ CreateTunnelReturn => call[Caller].nps_calls <= 1 + PollAttempts
    /\ CreateUnresolvedReturn =>
           /\ call[Caller].info.tunnel_id = NoId
           /\ call[Caller].info.port = call[Caller].port
           /\ call[Caller].port \in DOMAIN allocated_ports
           /\ tunnel_mappings = call[Caller].pre.cache

\* The id stayed unresolved while the cache held another tunnel.
C26_Witness ==
    /\ CreateUnresolvedReturn
    /\ call[Caller].nps_calls = 1 + PollAttempts
    /\ call[Caller].pre.cache # EmptyMap

(***************************************************************************)
(* The claims on allocate_port and release_port.                           *)
(***************************************************************************)
\* The port is in the range, not reserved and not in the table.
FreePort(table, p) ==
    /\ p \in PortStart .. PortEnd
    /\ p \notin ReservedPorts
    /\ p \notin DOMAIN table

FreePorts(table) == {p \in Ports : FreePort(table, p)}

\* The preferred port of thread t's call is given and free.
PreferredFree(t) ==
    call[t].preferred # NoPort /\ FreePort(allocated_ports, call[t].preferred)

\* Thread t, holding the lock, settles what its allocate_port returns.
AllocDecides(t) == pc[t] = "ap_pick" /\ pc'[t] # "ap_pick"

\* C27: allocate_port settles on the preferred port whenever one is given
\* and it is in the range, not reserved and not allocated; otherwise, under
\* the sequential strategy and with some port free, it settles on the
\* lowest port that is in the range, not reserved and not allocated.
C27_PreferredElseLowest ==
    [][\A t \in Threads :
          AllocDecides(t) =>
              /\ PreferredFree(t) => call'[t].port = call[t].preferred
              /\ (~PreferredFree(t) /\ strategy = "sequential"
                                    /\ FreePorts(allocated_ports) # {}) =>
                     /\ call'[t].port \in FreePorts(allocated_ports)
                     /\ \A p \in FreePorts(allocated_ports) : call'[t].port <= p]_vars

\* A sequential allocate_port whose preferred port was taken has returned
\* another port.
C27_Witness ==
    \E t \in Threads :
        /\ pc[t] = "done" /\ call[t].op = "allocate_port" /\ call[t].ok
        /\ strategy = "sequential"
        /\ call[t].preferred = PortStart /\ call[t].port # PortStart

\* C28 (as amended): allocate_port returns None, without a write to the
\* allocation table, when no port is free, and also when the configured
\* strategy is neither "sequential" nor "random" and no free preferred port
\* was given.
C28_FailsWithoutChange ==
    [][\A t \in Threads :
          (/\ AllocDecides(t)
           /\ \/ FreePorts(allocated_ports) = {}
              \/ strategy \notin {"sequential", "random"} /\ ~PreferredFree(t)) =>
              /\ pc'[t] = "done"
              /\ call'[t].port = NoPort /\ ~call'[t].ok
              /\ allocated_ports' = allocated_ports]_vars

\* Under a strategy it does not know, allocate_port has returned None for a
\* preferred port that was taken, while other ports are free.
C28_Witness ==
    \E t \in Threads :
        /\ pc[t] = "done" /\ call[t].op = "allocate_port" /\ ~call[t].ok
        /\ strategy \notin {"sequential", "random"}
        /\ call[t].preferred = PortStart
        /\ PortStart \in DOMAIN allocated_ports
        /\ FreePorts(allocated_ports) # {}

\* C28 as stated: whenever the configured strategy is neither "sequential"
\* nor "random", allocate_port returns None.
C28_UnknownStrategyAlwaysFails ==
    \A t \in Threads :
        (/\ pc[t] = "done" /\ call[t].op = "allocate_port"
         /\ strategy \notin {"sequential", "random"}) =>
            ~call[t].ok

\* Thread t, holding the lock, runs the body of its release_port.
ReleaseDecides(t) == pc[t] = "rp_body" /\ pc'[t] = "done"

\* C29: release_port(p) returns true exactly when p is in the allocation
\* table; afterwards p is not in the table and the other records are as
\* they were, so that a release of a port the table does not hold changes
\* nothing; and a port that allocate_port had granted is, once released,
\* what the next allocate_port asking for it is given.
C29_ReleaseIdempotent ==
    [][\A t \in Threads :
          ReleaseDecides(t) =>
              LET p == call[t].port
                  held == p \in DOMAIN allocated_ports
              IN  /\ call'[t].ok = held
                  /\ p \notin DOMAIN allocated_ports'
                  /\ DOMAIN allocated_ports' = DOMAIN allocated_ports \ {p}
                  /\ \A q \in DOMAIN allocated_ports' :
                         allocated_ports'[q] = allocated_ports[q]
                  /\ ~held => allocated_ports' = allocated_ports
                  /\ (held /\ grant_count[p] > 0) =>
                         AllocateChoices(allocated_ports', strategy, p) = {p}]_vars

\* A port was released, and the allocate_port that followed was granted it.
C29_Witness ==
    \E t1, t2 \in Threads :
        /\ pc[t1] = "done" /\ call[t1].op = "release_port" /\ call[t1].ok
        /\ pc[t2] = "done" /\ call[t2].op = "allocate_port" /\ call[t2].ok
        /\ call[t2].port = call[t1].port
        /\ call[t1].port \in DOMAIN allocated_ports

(***************************************************************************)
(* The claim on the atomicity of check-then-write.                         *)
(***************************************************************************)
\* Thread t's update_tunnel or get_tunnel_info writes the port it checked.
HelperMarks(t) == pc[t] \in {"ut_mark", "gi_mark"} /\ pc'[t] = "done"

\* C30: the availability check and the marking that update_tunnel and
\* get_tunnel_info make through _is_port_available, is_port_allocated and
\* _mark_port_allocated are atomic with respect to allocate_port and
\* release_port: the port they mark is never one that allocate_port has
\* granted to another caller in the meantime.
C30_HelpersNeverRemarkGranted ==
    [][\A t \in Threads : HelperMarks(t) => grant_count[call[t].port] = 0]_vars

(***************************************************************************)
(* The claim on the allocation file.                                       *)
(***************************************************************************)
\* allocate_port, release_port or a bulk release has returned after
\* changing the table, and its write of the file did not fail.
SavedReturn ==
    /\ pc[Caller] = "done"
    /\ call[Caller].op \in {"allocate_port", "release_port", "release_ports_by_service",
                            "release_ports_by_client"}
    /\ call[Caller].changed /\ call[Caller].saved

\* C31: when allocate_port, release_port or a bulk release returns after
\* changing the table and its file write did not fail, the allocation file
\* holds exactly the table.
C31_FileEqualsTableOnReturn == SavedReturn => port_file = allocated_ports

\* A bulk release by client id has released ports and returned, its write
\* done, on a disk whose writes may fail.
C31_Witness ==
    /\ SavedReturn /\ disk_faulty
    /\ call[Caller].op = "release_ports_by_client"
    /\ call[Caller].released # {}

(***************************************************************************)
(* The claims on the broker client.                                        *)
(***************************************************************************)
\* A request of the broker client is in progress, or has returned.
RequestRunning == pc[Caller] = "sr_attempt"
RequestReturned == pc[Caller] = "done" /\ call[Caller].op \in ClientOps

TransportFailures == {"timeout", "http_error", "connection_error"}

\* The attempts made so far, and the last of them.
AttemptsMade == Len(call[Caller].log)
LastOutcome == call[Caller].log[AttemptsMade]

\* No more attempts than retry_count; every attempt but the last ended in a
\* timeout, an HTTP error status or a connection error; a call that
\* returned after such a failure had used up its attempts and returned
\* None; a call whose last attempt got a response with a success status
\* returned a dictionary, whether or not the body could be decoded.
RequestBounded ==
    (RequestRunning \/ RequestReturned) =>
        /\ AttemptsMade <= RetryCount
        /\ \A i \in 1 .. AttemptsMade - 1 : call[Caller].log[i] \in TransportFailures
        /\ RequestRunning =>
               /\ AttemptsMade < RetryCount
               /\ \A i \in 1 .. AttemptsMade : call[Caller].log[i] \in TransportFailures
        /\ RequestReturned =>
               /\ AttemptsMade >= 1
               /\ LastOutcome \in TransportFailures =>
                      AttemptsMade = RetryCount /\ call[Caller].response = NoResponse
               /\ LastOutcome \in {"json_status_1", "json_status_0", "bad_json",
                                   "text_success", "text_other"} =>
                      call[Caller].response.received

\* C32: a broker request makes at most retry_count attempts, retries only
\* timeouts, HTTP error statuses and connection errors, returns None once
\* they have used up the attempts, ends at once on a response with a success
\* status, and always returns.
C32_RetriesBoundedAndEnds == []RequestBounded /\ (RequestRunning ~> RequestReturned)

\* A request has returned None after a timeout, an HTTP error status and a
\* connection error.
C32_Witness ==
    /\ RequestReturned
    /\ call[Caller].log = <<"timeout", "http_error", "connection_error">>
    /\ call[Caller].response = NoResponse

\* What add_tunnel, update_tunnel and delete_tunnel give the orchestrator
\* when the broker has answered with a status other than 1.
RejectedResult == ClientResult(ResponseOf("json_status_0"))

\* C33: add_tunnel, update_tunnel and delete_tunnel give the orchestrator,
\* when the broker could not be reached, a result other than the one they
\* give when the broker rejected the request.
C33_UnreachableDiffersFromRejected ==
    (/\ RequestReturned
     /\ call[Caller].op \in {"nps.add_tunnel", "nps.update_tunnel", "nps.delete_tunnel"}
     /\ call[Caller].response = NoResponse) =>
        call[Caller].ok # RejectedResult

(***************************************************************************)
(* The claims on concurrent lifecycle calls.                               *)
(***************************************************************************)
\* A tunnel of the binding a call built is still provisioned: the broker
\* holds it and its port is allocated.
Provisioned(info) ==
    /\ info.tunnel_id \in DOMAIN nps_tunnels
    /\ info.port \in DOMAIN allocated_ports

\* C34: calls on the same container name are not serialized: a thread that
\* is between calls can begin start_container, and another can begin
\* remove_container, whatever call on that name the other thread is in the
\* middle of.
C34_CallsNotSerialized ==
    /\ (pc[Caller] = "idle" /\ phase = "ready") => ENABLED BeginStartContainer(Caller)
    /\ (pc[Remover] = "idle" /\ phase = "ready") => ENABLED BeginRemoveContainer(Remover)

\* A start_container call and a remove_container call on the one name
\* overlapped and both have returned: the start reported success, every
\* tunnel it created is provisioned, and no binding is stored for the name.
C34_Witness ==
    /\ pc[Caller] = "done" /\ call[Caller].op = "start_container" /\ call[Caller].ok
    /\ pc[Remover] = "done" /\ call[Remover].op = "remove_container"
    /\ call[Remover].name = call[Caller].name
    /\ call[Caller].name \notin DOMAIN container_tunnels
    /\ DOMAIN call[Caller].created = Services
    /\ \A s \in Services : Provisioned(call[Caller].created[s])

(***************************************************************************)
(* The claims on the lifecycle of a container name.                        *)
(***************************************************************************)
\* create_container is at work on the name, by itself or inside
\* start_from_snapshot: between its lookup of the name and its return.
Provisioning(name) ==
    \E t \in Threads :
        /\ call[t].name = name
        /\ pc[t] \in {"cc_run", "cc_ip", "cc_tunnel", "cc_rollback", "cc_commit"}

\* Where a name is in its lifecycle.
LifecycleState(name) ==
    IF Provisioning(name) THEN "provisioning"
    ELSE IF name \notin DOMAIN containers THEN "absent"
    ELSE IF containers[name] = "running" THEN "running"
    ELSE "stopped"

\* The transitions the state machine lists; running to running is the step
\* that leaves the state as it is.
ListedTransitions ==
    {<<"absent", "provisioning">>, <<"provisioning", "running">>,
     <<"running", "stopped">>, <<"stopped", "absent">>,
     <<"stopped", "running">>, <<"absent", "running">>}

\* The transitions of a create_container that fails: the container was not
\* launched or was removed again, or it was left behind stopped.
FailedCreateTransitions ==
    {<<"provisioning", "absent">>, <<"provisioning", "stopped">>}

MovesAlong(transitions) ==
    \A name \in Names :
        \/ LifecycleState(name)' = LifecycleState(name)
        \/ <<LifecycleState(name), LifecycleState(name)'>> \in transitions

\* stop_and_commit has returned the tag of the snapshot it made.
SnapshotCompleted ==
    /\ pc[Caller] = "done" /\ call[Caller].op = "stop_and_commit"
    /\ call[Caller].ok /\ call[Caller].tag # NoText

HandlerTransitions ==
    {<<"absent", "provisioning">>, <<"provisioning", "running">>,
     <<"running", "stopped">>, <<"stopped", "absent">>,
     <<"stopped", "running">>, <<"running", "absent">>} \cup FailedCreateTransitions

\* The transitions of stop_and_commit: it stops the container and removes
\* it.
SnapshotTransitions == {<<"running", "stopped">>, <<"stopped", "absent">>}

\* A step taken inside stop_and_commit.
SnapshotStep == call[Caller].op = "stop_and_commit" /\ pc[Caller] # "done"

C36_FailedUpdateLeavesTable ==
    (pc[Caller] = "done" /\ call[Caller].op = "update_tunnel" /\ ~call[Caller].ok) =>
        allocated_ports = call[Caller].pre.alloc

\* delete_tunnel has returned true for a tunnel the broker held.
DeleteTrueReturn ==
    /\ pc[Caller] = "done" /\ call[Caller].op = "delete_tunnel" /\ call[Caller].ok
    /\ call[Caller].tunnel_id \in DOMAIN call[Caller].pre.broker

\* The public port the deleted tunnel listened on.
DeletedPort == call[Caller].pre.broker[call[Caller].tunnel_id].Port

\* C39: whenever delete_tunnel(id) returns true, the port the tunnel
\* occupied is not in the allocation table, whether or not the id was in
\* the cache.
C39_DeletedTunnelPortFreed ==
    DeleteTrueReturn => DeletedPort \notin DOMAIN allocated_ports

(***************************************************************************)
(* The claim on what a failed create_container leaves of the image records.*)
(***************************************************************************)
\* start_from_snapshot has returned failure out of the create_container it
\* called, the container having been launched: no address was obtained
\* (no tunnel was attempted) or a tunnel failed.
SfsCreateFailedReturn ==
    /\ pc[Caller] = "done" /\ call[Caller].op = "start_from_snapshot"
    /\ call[Caller].runtime = "none" /\ call[Caller].handle
    /\ ~call[Caller].ok

\* C37: whenever the create_container called by start_from_snapshot fails,
\* the name's image history is what it was before the call: the snapshots
\* recorded before it are still recorded and nothing was added.
C37_FailedCreateKeepsHistory ==
    SfsCreateFailedReturn => HistoryOf(call[Caller].name) = call[Caller].history

(***************************************************************************)
(* The claims on the tunnels start_container and stop_container leave.     *)
(***************************************************************************)
\* The ports allocated for a name: those the broker's tunnels that carry
\* the name in their remark listen on, allocated in the allocation table.
PortsAllocatedFor(name) ==
    {nps_tunnels[i].Port : i \in {j \in DOMAIN nps_tunnels :
                                     \E s \in Services :
                                         nps_tunnels[j].Remark = RemarkOf(name, s)}}
    \cap DOMAIN allocated_ports

\* The ports the name's binding references.
BoundPorts(name) ==
    IF name \in DOMAIN container_tunnels
    THEN {container_tunnels[name][s].port : s \in DOMAIN container_tunnels[name]}
    ELSE {}

\* C38: when start_container has started a stopped container and returned
\* its ports, every port allocated for the name is referenced by the name's
\* binding.
C38_StartLeavesNoOrphan ==
    (/\ pc[Caller] = "done" /\ call[Caller].op = "start_container"
     /\ call[Caller].ok /\ call[Caller].created # EmptyMap) =>
        PortsAllocatedFor(call[Caller].name) \subseteq BoundPorts(call[Caller].name)

\* The tunnel ids the stored binding of a name references.
ReferencedIds(name) ==
    IF name \in DOMAIN container_tunnels
    THEN {container_tunnels[name][s].tunnel_id : s \in DOMAIN container_tunnels[name]}
    ELSE {}

\* stop_container is returning after a deletion that failed.
StopLeftTunnels ==
    /\ pc[Caller] = "sc_done"
    /\ call[Caller].op = "stop_container"
    /\ call[Caller].del_failed # {}

\* C40: a tunnel whose deletion failed during stop_container(name) stays
\* referenced by the stored binding of the name, so that a later stop or
\* remove of the name finds it and deletes it again.
C40_UndeletedTunnelStaysBound ==
    StopLeftTunnels =>
        call[Caller].del_failed \subseteq ReferencedIds(call[Caller].name)
====
